---- MODULE Spec2Model ----
(***************************************************************************)
(* State-machine model of the telemetry governance core of nadi-pro/browser *)
(* (src/src/sampling.ts: SamplingManager; src/src/tracing.ts:               *)
(* TracingManager; src/src/index.ts: Nadi's wiring of the error tracker).   *)
(*                                                                          *)
(* Representation:                                                          *)
(*  - a rate (a JavaScript number) is an integer number of thousandths,     *)
(*    so 1.0 is 1000, 0.5 is 500, 0.25 is 250, 0.1 is 100; rates outside    *)
(*    [0,1] (e.g. -500, 1500) are kept as given unless the code clamps;     *)
(*  - Math.random() is a value u in thousandths with 0 <= u < 1000;         *)
(*  - a string is the sequence of its characters;                           *)
(*  - an optional value (undefined / null or a value) is <<>> or <<v>>.     *)
(***************************************************************************)
EXTENDS Integers, Sequences, FiniteSets, TLC

VARIABLES
  config,          \* SamplingManager.config
  rules,           \* SamplingManager.rules (each element carries its insertion number seq)
  sessionSampled,  \* SamplingManager.sessionSampled : boolean | null
  sessionDecision, \* SamplingManager.sessionDecision : SamplingDecision | null
  errorCount,      \* SamplingManager.errorCount
  totalEvents,     \* SamplingManager.totalEvents
  adaptiveRate,    \* SamplingManager.adaptiveRate
  nextSeq,         \* number of rules pushed so far + 1 (insertion order of the next rule)
  sessionEvals,    \* calls of shouldSample made by shouldSampleSession since construction / resetSession
  lastOp,          \* name of the method that ran last
  lastArg,         \* its argument (optional)
  ret,             \* its return value (optional)
  draws,           \* calls of Math.random made by the method that ran last
  traceId,         \* TracingManager.traceId
  spanId,          \* TracingManager.spanId
  traceSampled,    \* TracingManager.sampled
  traceState,      \* TracingManager.traceState : string | undefined
  tracingConfig,   \* TracingManager.config
  hasCrypto,       \* the environment: whether crypto.getRandomValues exists
  errorsEnabled,   \* ErrorTracker.enabled
  breadcrumbs,     \* BreadcrumbCollector: enabled, maxBreadcrumbs, breadcrumbs
  added,           \* history: the breadcrumbs stored since construction / the last clear
  privacyConfig,   \* PrivacyManager.config
  patterns,        \* PrivacyManager.patterns, in the order of the object's keys
  instance,        \* Nadi.instance (static) : the instance's identity | null
  created,         \* number of Nadi objects constructed so far
  initialized,     \* Nadi.initialized of the instance
  starting,        \* the part of Nadi.start() waiting behind await this.session.start()
  pageLoad,        \* PageLoadCollector: sent, enabled
  readyState,      \* document.readyState
  loadListeners,   \* listeners of the window's load event the collector has added
  loadTimers,      \* pending setTimeout(() => this.collectAndSend(), 100)
  hasNavigation,   \* the environment: performance holds a navigation entry
  pageLoadsSent,   \* history: page-load payloads handed to send() so far
  clock,           \* Date.now(), in units of the model
  clickConfig,     \* ClickTracker: threshold, windowMs
  clicks,          \* ClickTracker.clicks
  rageClicks,      \* InteractionsCollector.rageClicks
  clickLog,        \* history: every click handled, and whether it was reported
  longTasks,       \* LongTaskCollector: enabled, tasks (each entry by its number)
  pendingSends,    \* calls of sendTasks waiting behind await send(...)
  hasBeacon,       \* the environment: navigator.sendBeacon exists
  taskCount,       \* history: entries pushed to tasks so far
  transmitted,     \* history: the payloads handed to send(), in order
  session,         \* SessionManager.session : the session's number | null
  timeoutId,       \* SessionManager.timeoutId
  timers,          \* the timers set by resetTimeout that are pending
  awaiting,        \* calls of start / end / crash waiting behind an await
  listenerSets,    \* times setupActivityTracking / setupUnloadHandler added listeners
  sessionCount,    \* history: sessions created so far
  timerCount,      \* history: timers set so far
  messages         \* history: the session messages handed to send(), in order

samplingVars == <<config, rules, sessionSampled, sessionDecision, errorCount, totalEvents,
                  adaptiveRate, nextSeq, sessionEvals>>
tracingVars == <<traceId, spanId, traceSampled, traceState, tracingConfig, hasCrypto>>
nadiVars == <<errorsEnabled, breadcrumbs, added>>
privacyVars == <<privacyConfig, patterns>>
instanceVars == <<instance, created, initialized, starting>>
\* collectors and managers taken on their own, outside a Nadi instance
pageLoadVars == <<pageLoad, readyState, loadListeners, loadTimers, hasNavigation, pageLoadsSent>>
clickVars == <<clock, clickConfig, clicks, rageClicks, clickLog>>
bufferVars == <<longTasks, pendingSends, hasBeacon, taskCount, transmitted>>
sessionVars == <<session, timeoutId, timers, awaiting, listenerSets, sessionCount,
                 timerCount, messages>>
aloneVars == <<pageLoadVars, clickVars, bufferVars, sessionVars>>
hostVars == <<instanceVars, aloneVars>>

vars == <<config, rules, sessionSampled, sessionDecision, errorCount, totalEvents,
          adaptiveRate, nextSeq, sessionEvals, lastOp, lastArg, ret, draws,
          traceId, spanId, traceSampled, traceState, tracingConfig, hasCrypto,
          errorsEnabled, breadcrumbs, added, privacyConfig, patterns, hostVars>>

(***************************************************************************)
(* Bounds of the model.                                                     *)
(***************************************************************************)
MaxInserts == 2        \* rules pushed (constructor rules included) in the session specification
MaxRuleInserts == 3    \* rules pushed (constructor rules included) in the rule specification
MaxSessionEvents == 1  \* recordEvent calls in the session / rule specifications
MaxEvents == 102       \* recordEvent calls in the adaptive specification
MaxErrors == 7         \* recordEvent(true) calls in the adaptive specification
MaxAdds == 4           \* breadcrumbs added since construction / the last clear

(***************************************************************************)
(* Helpers for the representation.                                          *)
(***************************************************************************)
None == <<>>
Some(x) == <<x>>

Max(a, b) == IF a >= b THEN a ELSE b
Min(a, b) == IF a <= b THEN a ELSE b

\* String.prototype.startsWith
StartsWith(s, p) == Len(p) <= Len(s) /\ SubSeq(s, 1, Len(p)) = p

\* JavaScript truthiness of an optional string: undefined and "" are falsy
Truthy(optStr) == optStr # None /\ optStr[1] # <<>>

\* truthiness of an optional string the model keeps whole (a device or
\* connection type)
TruthyWord(optStr) == optStr # None /\ optStr[1] # ""

\* Array.prototype.includes / some
Includes(arr, x) == \E i \in 1..Len(arr) : arr[i] = x

(***************************************************************************)
(* Sampling decisions (interface SamplingDecision).                         *)
(***************************************************************************)
Decision(sampled, matchedRule, appliedRate, reason) ==
  [sampled |-> sampled, matchedRule |-> matchedRule,
   appliedRate |-> appliedRate, reason |-> reason]

ErrorDecision == Decision(TRUE, None, 1000, "error")
SlowDecision == Decision(TRUE, None, 1000, "slow_session")

\* faulty variant: the forced decision carries a rate of one half
ForcedDecision_HalfRate == Decision(TRUE, None, 500, "forced")

ForcedDecision == Decision(TRUE, None, 1000, "forced")

(***************************************************************************)
(* Rule predicates.  A rule's match closure is represented by the data it   *)
(* closes over: the factory that built it and that factory's arguments.     *)
(***************************************************************************)
\* createRouteRule with a string pattern
RouteRuleMatch(pattern, ctx) ==
  IF Truthy(ctx.route)
    THEN ctx.route[1] = pattern \/ StartsWith(ctx.route[1], pattern)
    ELSE FALSE

\* createDeviceTypeRule
DeviceTypeRuleMatch(deviceType, ctx) == ctx.deviceType = Some(deviceType)

\* createConnectionTypeRule
ConnectionTypeRuleMatch(connectionType, ctx) == ctx.connectionType = Some(connectionType)

\* faulty variant: one satisfied category is enough
ServerRuleMatch_Any(conditions, ctx) ==
  IF conditions = None THEN TRUE
  ELSE LET c == conditions[1] IN
    \/ /\ c.routes # None /\ Len(c.routes[1]) > 0
       /\ Truthy(ctx.route)
       /\ \E i \in 1..Len(c.routes[1]) : StartsWith(ctx.route[1], c.routes[1][i])
    \/ /\ c.deviceTypes # None /\ Len(c.deviceTypes[1]) > 0
       /\ TruthyWord(ctx.deviceType)
       /\ Includes(c.deviceTypes[1], ctx.deviceType[1])
    \/ /\ c.connectionTypes # None /\ Len(c.connectionTypes[1]) > 0
       /\ TruthyWord(ctx.connectionType)
       /\ Includes(c.connectionTypes[1], ctx.connectionType[1])
    \/ /\ c.routes = None \/ Len(c.routes[1]) = 0
       /\ c.deviceTypes = None \/ Len(c.deviceTypes[1]) = 0
       /\ c.connectionTypes = None \/ Len(c.connectionTypes[1]) = 0

\* the match closure built by loadServerRules
ServerRuleMatch(conditions, ctx) ==
  IF conditions = None THEN TRUE
  ELSE LET c == conditions[1] IN
    IF /\ c.routes # None /\ Len(c.routes[1]) > 0
       /\ (~Truthy(ctx.route)
           \/ ~\E i \in 1..Len(c.routes[1]) : StartsWith(ctx.route[1], c.routes[1][i]))
      THEN FALSE
    ELSE IF /\ c.deviceTypes # None /\ Len(c.deviceTypes[1]) > 0
            /\ (~TruthyWord(ctx.deviceType)
                \/ ~Includes(c.deviceTypes[1], ctx.deviceType[1]))
      THEN FALSE
    ELSE IF /\ c.connectionTypes # None /\ Len(c.connectionTypes[1]) > 0
            /\ (~TruthyWord(ctx.connectionType)
                \/ ~Includes(c.connectionTypes[1], ctx.connectionType[1]))
      THEN FALSE
    ELSE TRUE

\* the match closure Nadi's constructor builds for an entry of samplingRules
SamplingRuleMatch(conditions, ctx) ==
  IF conditions = None THEN TRUE
  ELSE LET c == conditions[1] IN
    IF /\ c.routes # None /\ Len(c.routes[1]) > 0
       /\ (~Truthy(ctx.route)
           \/ ~\E i \in 1..Len(c.routes[1]) : StartsWith(ctx.route[1], c.routes[1][i]))
      THEN FALSE
    ELSE IF /\ c.deviceTypes # None /\ Len(c.deviceTypes[1]) > 0
            /\ (~TruthyWord(ctx.deviceType)
                \/ ~Includes(c.deviceTypes[1], ctx.deviceType[1]))
      THEN FALSE
    ELSE IF /\ c.connectionTypes # None /\ Len(c.connectionTypes[1]) > 0
            /\ (~TruthyWord(ctx.connectionType)
                \/ ~Includes(c.connectionTypes[1], ctx.connectionType[1]))
      THEN FALSE
    ELSE TRUE

\* rule.match(context)
RuleMatches(rule, ctx) ==
  CASE rule.match.kind = "route" -> RouteRuleMatch(rule.match.pattern, ctx)
    [] rule.match.kind = "device" -> DeviceTypeRuleMatch(rule.match.deviceType, ctx)
    [] rule.match.kind = "connection" -> ConnectionTypeRuleMatch(rule.match.connectionType, ctx)
    [] rule.match.kind = "server" -> ServerRuleMatch(rule.match.conditions, ctx)
    [] rule.match.kind = "config" -> SamplingRuleMatch(rule.match.conditions, ctx)

(***************************************************************************)
(* sortRules: Array.prototype.sort with the comparator                      *)
(* (a, b) => b.priority - a.priority, which is a stable sort: descending    *)
(* priority, elements of equal priority keep their relative order.          *)
(***************************************************************************)
\* position at which r lands: after every element whose priority is >= r's
InsertPos(sorted, r) ==
  Cardinality({i \in 1..Len(sorted) : sorted[i].priority >= r.priority}) + 1

InsertSorted(sorted, r) ==
  LET k == InsertPos(sorted, r) IN
    SubSeq(sorted, 1, k - 1) \o <<r>> \o SubSeq(sorted, k, Len(sorted))

RECURSIVE StableSortDesc(_, _)
StableSortDesc(done, todo) ==
  IF todo = <<>> THEN done
  ELSE StableSortDesc(InsertSorted(done, Head(todo)), Tail(todo))

\* faulty variant: ascending instead of descending priority
RECURSIVE SortAscending(_, _)
SortAscending(done, todo) ==
  IF todo = <<>> THEN done
  ELSE LET r == Head(todo)
           k == Cardinality({i \in 1..Len(done) : done[i].priority <= r.priority}) + 1
       IN SortAscending(SubSeq(done, 1, k - 1) \o <<r>> \o SubSeq(done, k, Len(done)),
                        Tail(todo))

sortRules_Ascending(rs) == SortAscending(<<>>, rs)

\* faulty variant: an unstable sort that puts a rule before the rules of equal priority
RECURSIVE SortUnstable(_, _)
SortUnstable(done, todo) ==
  IF todo = <<>> THEN done
  ELSE LET r == Head(todo)
           k == Cardinality({i \in 1..Len(done) : done[i].priority > r.priority}) + 1
       IN SortUnstable(SubSeq(done, 1, k - 1) \o <<r>> \o SubSeq(done, k, Len(done)),
                       Tail(todo))

sortRules_Unstable(rs) == SortUnstable(<<>>, rs)

sortRules(rs) == StableSortDesc(<<>>, rs)

(***************************************************************************)
(* randomSample(rate), given the value u that Math.random() would return.   *)
(* The result says whether Math.random was called.                          *)
(***************************************************************************)
\* faulty variant: the boundary rate 1.0 falls through to the random draw
randomSample_StrictOne(rate, u) ==
  IF rate > 1000 THEN [sampled |-> TRUE, draws |-> 0]
  ELSE IF rate <= 0 THEN [sampled |-> FALSE, draws |-> 0]
  ELSE [sampled |-> u < rate, draws |-> 1]

randomSample(rate, u) ==
  IF rate >= 1000 THEN [sampled |-> TRUE, draws |-> 0]
  ELSE IF rate <= 0 THEN [sampled |-> FALSE, draws |-> 0]
  ELSE [sampled |-> u < rate, draws |-> 1]

(***************************************************************************)
(* shouldSample(context) in a manager whose fields are cfg, rs, adaptive.   *)
(***************************************************************************)
\* indices of the rules that match the context
MatchingIdx(rs, ctx) == {i \in 1..Len(rs) : RuleMatches(rs[i], ctx)}

\* the for-of loop: the first rule in array order whose predicate matches
FirstMatch(rs, ctx) ==
  LET m == MatchingIdx(rs, ctx) IN
    CHOOSE i \in m : \A j \in m : i <= j

RuleStep(cfg, rs, adaptive, ctx, u) ==
  IF MatchingIdx(rs, ctx) # {}
    THEN LET rule == rs[FirstMatch(rs, ctx)]
             s == randomSample(rule.rate, u)
         IN [decision |-> Decision(s.sampled, Some(rule.name), rule.rate, "rule"),
             draws |-> s.draws]
    ELSE LET effectiveRate == IF cfg.adaptiveSampling THEN adaptive ELSE cfg.globalRate
             s == randomSample(effectiveRate, u)
         IN [decision |-> Decision(s.sampled, None, effectiveRate, "global"),
             draws |-> s.draws]

\* faulty variant: the slow-session override is tested before the error override
shouldSampleIn_SlowFirst(cfg, rs, adaptive, ctx, u) ==
  IF cfg.alwaysSampleSlowSessions /\ ctx.isSlowSession
    THEN [decision |-> SlowDecision, draws |-> 0]
  ELSE IF cfg.alwaysSampleErrors /\ ctx.hasError
    THEN [decision |-> ErrorDecision, draws |-> 0]
  ELSE RuleStep(cfg, rs, adaptive, ctx, u)

\* faulty variant: the global step ignores the adaptive rate
shouldSampleIn_NoAdaptive(cfg, rs, adaptive, ctx, u) ==
  IF cfg.alwaysSampleErrors /\ ctx.hasError
    THEN [decision |-> ErrorDecision, draws |-> 0]
  ELSE IF cfg.alwaysSampleSlowSessions /\ ctx.isSlowSession
    THEN [decision |-> SlowDecision, draws |-> 0]
  ELSE RuleStep(cfg, rs, cfg.globalRate, ctx, u)

shouldSampleIn(cfg, rs, adaptive, ctx, u) ==
  IF cfg.alwaysSampleErrors /\ ctx.hasError
    THEN [decision |-> ErrorDecision, draws |-> 0]
  ELSE IF cfg.alwaysSampleSlowSessions /\ ctx.isSlowSession
    THEN [decision |-> SlowDecision, draws |-> 0]
  ELSE RuleStep(cfg, rs, adaptive, ctx, u)

\* shouldSample on the current state
shouldSample(ctx, u) == shouldSampleIn(config, rules, adaptiveRate, ctx, u)

(***************************************************************************)
(* adjustAdaptiveRate: the new adaptiveRate.  errorRate > 0.05 is           *)
(* errorCount / totalEvents > 5/100, compared here by cross-multiplication  *)
(* (exact for the counts the model reaches).                                *)
(***************************************************************************)
MinAdaptiveEvents == 100

\* faulty variant: non-strict band comparisons
adjustAdaptiveRate_NonStrict(globalRate, errors, total) ==
  IF total < MinAdaptiveEvents THEN globalRate
  ELSE LET band == IF errors * 100 >= 5 * total THEN 1000
                   ELSE IF errors * 100 >= total THEN 500
                   ELSE IF errors * 1000 >= total THEN 250
                   ELSE 100
       IN Max(band, globalRate)

adjustAdaptiveRate(globalRate, errors, total) ==
  IF total < MinAdaptiveEvents THEN globalRate
  ELSE LET band == IF errors * 100 > 5 * total THEN 1000
                   ELSE IF errors * 100 > total THEN 500
                   ELSE IF errors * 1000 > total THEN 250
                   ELSE 100
       IN Max(band, globalRate)

\* getGlobalRate()
getGlobalRate == IF config.adaptiveSampling THEN adaptiveRate ELSE config.globalRate

(***************************************************************************)
(* The constructor and the methods of SamplingManager.                      *)
(***************************************************************************)
\* values of Math.random() the model draws from (thousandths, 0 <= u < 1)
RandomValues == {0, 499, 999}

\* what the method that ran last was called with, returned and drew
Returned(op, arg, r, d) == lastOp' = op /\ lastArg' = arg /\ ret' = r /\ draws' = d

\* a method of the SamplingManager invoked directly: nothing else changes
Call(op, arg, r, d) ==
  /\ Returned(op, arg, r, d)
  /\ UNCHANGED tracingVars
  /\ UNCHANGED nadiVars
  /\ UNCHANGED privacyVars
  /\ UNCHANGED hostVars

\* this.rules.push(rule): the rule lands at the end, numbered by insertion
Push(rs, rule, seq) ==
  Append(rs, [name |-> rule.name, match |-> rule.match, rate |-> rule.rate,
              priority |-> rule.priority, seq |-> seq])

RECURSIVE PushAll(_, _, _)
PushAll(rs, todo, seq) ==
  IF todo = <<>> THEN rs
  ELSE PushAll(Push(rs, Head(todo), seq), Tail(todo), seq + 1)

\* new SamplingManager(cfg); cfg is the configuration merged with the defaults
Construct(cfg) ==
  /\ config = [globalRate |-> cfg.globalRate,
               alwaysSampleErrors |-> cfg.alwaysSampleErrors,
               alwaysSampleSlowSessions |-> cfg.alwaysSampleSlowSessions,
               adaptiveSampling |-> cfg.adaptiveSampling]
  /\ rules = sortRules(PushAll(<<>>, cfg.rules, 1))
  /\ sessionSampled = None
  /\ sessionDecision = None
  /\ errorCount = 0
  /\ totalEvents = 0
  /\ adaptiveRate = 1000
  /\ nextSeq = Len(cfg.rules) + 1
  /\ sessionEvals = 0
  /\ lastOp = "constructor"
  /\ lastArg = None
  /\ ret = None
  /\ draws = 0

ShouldSample(ctx) ==
  \E u \in RandomValues :
    LET r == shouldSample(ctx, u) IN
      /\ Call("shouldSample", Some(ctx), Some(r.decision), r.draws)
      /\ UNCHANGED <<config, rules, sessionSampled, sessionDecision, errorCount,
                     totalEvents, adaptiveRate, nextSeq, sessionEvals>>

\* faulty variant: the cached decision is never consulted
ShouldSampleSession_NoCache(ctx) ==
  \E u \in RandomValues :
    LET r == shouldSample(ctx, u) IN
      /\ sessionSampled' = Some(r.decision.sampled)
      /\ sessionDecision' = Some(r.decision)
      /\ sessionEvals' = sessionEvals + 1
      /\ Call("shouldSampleSession", Some(ctx), Some(r.decision.sampled), r.draws)
      /\ UNCHANGED <<config, rules, errorCount, totalEvents, adaptiveRate, nextSeq>>

\* faulty variant: the boolean is returned but not stored
ShouldSampleSession_NoStore(ctx) ==
  IF sessionSampled # None
    THEN /\ Call("shouldSampleSession", Some(ctx), sessionSampled, 0)
         /\ UNCHANGED <<config, rules, sessionSampled, sessionDecision, errorCount,
                        totalEvents, adaptiveRate, nextSeq, sessionEvals>>
    ELSE \E u \in RandomValues :
           LET r == shouldSample(ctx, u) IN
             /\ sessionDecision' = Some(r.decision)
             /\ sessionEvals' = sessionEvals + 1
             /\ Call("shouldSampleSession", Some(ctx), Some(r.decision.sampled), r.draws)
             /\ UNCHANGED <<config, rules, sessionSampled, errorCount, totalEvents,
                            adaptiveRate, nextSeq>>

ShouldSampleSession(ctx) ==
  IF sessionSampled # None
    THEN /\ Call("shouldSampleSession", Some(ctx), sessionSampled, 0)
         /\ UNCHANGED <<config, rules, sessionSampled, sessionDecision, errorCount,
                        totalEvents, adaptiveRate, nextSeq, sessionEvals>>
    ELSE \E u \in RandomValues :
           LET r == shouldSample(ctx, u) IN
             /\ sessionSampled' = Some(r.decision.sampled)
             /\ sessionDecision' = Some(r.decision)
             /\ sessionEvals' = sessionEvals + 1
             /\ Call("shouldSampleSession", Some(ctx), Some(r.decision.sampled), r.draws)
             /\ UNCHANGED <<config, rules, errorCount, totalEvents, adaptiveRate, nextSeq>>

GetSessionDecision ==
  /\ Call("getSessionDecision", None, sessionDecision, 0)
  /\ UNCHANGED <<config, rules, sessionSampled, sessionDecision, errorCount,
                 totalEvents, adaptiveRate, nextSeq, sessionEvals>>

\* the assignments of forceSampleSession
forceSampleSession ==
  /\ sessionSampled' = Some(TRUE)
  /\ sessionDecision' = Some(ForcedDecision)

ForceSampleSession ==
  /\ forceSampleSession
  /\ Call("forceSampleSession", None, None, 0)
  /\ UNCHANGED <<config, rules, errorCount, totalEvents, adaptiveRate, nextSeq, sessionEvals>>

ResetSession ==
  /\ sessionSampled' = None
  /\ sessionDecision' = None
  /\ sessionEvals' = 0
  /\ Call("resetSession", None, None, 0)
  /\ UNCHANGED <<config, rules, errorCount, totalEvents, adaptiveRate, nextSeq>>

\* the state change of addRule: push, then sortRules
addRule(rs, rule, seq) == sortRules(Push(rs, rule, seq))

AddRule(rule) ==
  /\ rules' = addRule(rules, rule, nextSeq)
  /\ nextSeq' = nextSeq + 1
  /\ Call("addRule", Some(rule.name), None, 0)
  /\ UNCHANGED <<config, sessionSampled, sessionDecision, errorCount, totalEvents,
                 adaptiveRate, sessionEvals>>

RemoveRule(name) ==
  /\ rules' = SelectSeq(rules, LAMBDA r : r.name # name)
  /\ Call("removeRule", Some(name), None, 0)
  /\ UNCHANGED <<config, sessionSampled, sessionDecision, errorCount, totalEvents,
                 adaptiveRate, nextSeq, sessionEvals>>

\* the rule loadServerRules builds from one server rule
ServerRule(serverRule) ==
  [name |-> serverRule.name, rate |-> serverRule.rate, priority |-> serverRule.priority,
   match |-> [kind |-> "server", conditions |-> serverRule.conditions]]

\* the rule Nadi's constructor makes of an entry of config.samplingRules
SamplingRule(rule) ==
  [name |-> rule.name, rate |-> rule.rate, priority |-> rule.priority,
   match |-> [kind |-> "config", conditions |-> rule.conditions]]

\* the for-of loop of loadServerRules: one addRule per server rule
RECURSIVE loadServerRules(_, _, _)
loadServerRules(rs, serverRules, seq) ==
  IF serverRules = <<>> THEN rs
  ELSE loadServerRules(addRule(rs, ServerRule(Head(serverRules)), seq),
                       Tail(serverRules), seq + 1)

LoadServerRules(serverRules) ==
  /\ rules' = loadServerRules(rules, serverRules, nextSeq)
  /\ nextSeq' = nextSeq + Len(serverRules)
  /\ Call("loadServerRules", None, None, 0)
  /\ UNCHANGED <<config, sessionSampled, sessionDecision, errorCount, totalEvents,
                 adaptiveRate, sessionEvals>>

\* faulty variant: the new rate also drops the cached session decision
SetGlobalRate_ResetsSession(rate) ==
  /\ config' = [config EXCEPT !.globalRate = Max(0, Min(1000, rate))]
  /\ sessionSampled' = None
  /\ sessionDecision' = None
  /\ Call("setGlobalRate", Some(rate), None, 0)
  /\ UNCHANGED <<rules, errorCount, totalEvents, adaptiveRate, nextSeq, sessionEvals>>

SetGlobalRate(rate) ==
  /\ config' = [config EXCEPT !.globalRate = Max(0, Min(1000, rate))]
  /\ Call("setGlobalRate", Some(rate), None, 0)
  /\ UNCHANGED <<rules, sessionSampled, sessionDecision, errorCount, totalEvents,
                 adaptiveRate, nextSeq, sessionEvals>>

GetGlobalRate ==
  /\ Call("getGlobalRate", None, Some(getGlobalRate), 0)
  /\ UNCHANGED <<config, rules, sessionSampled, sessionDecision, errorCount,
                 totalEvents, adaptiveRate, nextSeq, sessionEvals>>

RecordEvent(hasError) ==
  /\ totalEvents' = totalEvents + 1
  /\ errorCount' = IF hasError THEN errorCount + 1 ELSE errorCount
  /\ adaptiveRate' = IF config.adaptiveSampling
                       THEN adjustAdaptiveRate(config.globalRate, errorCount', totalEvents')
                       ELSE adaptiveRate
  /\ Call("recordEvent", Some(hasError), None, 0)
  /\ UNCHANGED <<config, rules, sessionSampled, sessionDecision, nextSeq, sessionEvals>>

SetAlwaysSampleErrors(enabled) ==
  /\ config' = [config EXCEPT !.alwaysSampleErrors = enabled]
  /\ Call("setAlwaysSampleErrors", Some(enabled), None, 0)
  /\ UNCHANGED <<rules, sessionSampled, sessionDecision, errorCount, totalEvents,
                 adaptiveRate, nextSeq, sessionEvals>>

\* getConfig(): a copy of the configuration
GetConfig ==
  /\ Call("getConfig", None, Some(config), 0)
  /\ UNCHANGED samplingVars

(***************************************************************************)
(* TracingManager (src/src/tracing.ts): pure parts.                         *)
(***************************************************************************)
HexChars == <<"0", "1", "2", "3", "4", "5", "6", "7",
              "8", "9", "a", "b", "c", "d", "e", "f">>
HexCharSet == {HexChars[i] : i \in 1..16}
\* the digit of n in base 16, 0 <= n < 16
HexDigit(n) == HexChars[n + 1]
\* the value of a hexadecimal digit character
HexVal(c) == CHOOSE n \in 0..15 : HexChars[n + 1] = c

\* String.prototype.repeat for a one-character string
Repeat(c, n) == [i \in 1..n |-> c]

\* Number.prototype.toString(16) of a byte
ToString16(b) ==
  IF b < 16 THEN <<HexDigit(b)>> ELSE <<HexDigit(b \div 16), HexDigit(b % 16)>>

\* String.prototype.padStart(2, '0')
PadStart2(str) == IF Len(str) < 2 THEN Repeat("0", 2 - Len(str)) \o str ELSE str

\* Array.from(bytes).map(b => b.toString(16).padStart(2, '0')).join('')
RECURSIVE HexOfBytes(_)
HexOfBytes(bytes) ==
  IF bytes = <<>> THEN <<>>
  ELSE PadStart2(ToString16(Head(bytes))) \o HexOfBytes(Tail(bytes))

\* the fallback loop: Math.floor(Math.random() * 16).toString(16) per character,
\* us being the values Math.random() returns (thousandths)
HexOfRandom(us) == [i \in 1..Len(us) |-> HexDigit((us[i] * 16) \div 1000)]

\* generateHexString(byteLength) for one outcome of the entropy source:
\* byteLength bytes of crypto.getRandomValues, or 2 * byteLength values of Math.random
generateHexString(byteLength, crypto, entropy) ==
  IF crypto THEN HexOfBytes(entropy) ELSE HexOfRandom(entropy)

\* outcomes of the entropy source the model draws from
ByteOutcomes(n) ==
  {[i \in 1..n |-> 0], [i \in 1..n |-> 171], [i \in 1..n |-> IF i = n THEN 10 ELSE 0]}
RandomOutcomes(n) == {[i \in 1..n |-> 0], [i \in 1..n |-> 999]}
Entropy(byteLength, crypto) ==
  IF crypto THEN ByteOutcomes(byteLength) ELSE RandomOutcomes(2 * byteLength)

TraceIdBytes == 16
SpanIdBytes == 8

generateTraceId(crypto, entropy) == generateHexString(TraceIdBytes, crypto, entropy)
generateSpanId(crypto, entropy) == generateHexString(SpanIdBytes, crypto, entropy)

\* JavaScript truthiness of a string
NonEmpty(str) == str # <<>>

Dash == <<"-">>

\* createTraceparent(spanId?) on a manager with the given fields
createTraceparentOf(tid, sid, smp, spanIdArg) ==
  LET version == <<"0", "0">>
      flags == IF smp THEN <<"0", "1">> ELSE <<"0", "0">>
      parentId == IF Truthy(spanIdArg) THEN spanIdArg[1] ELSE sid
  IN version \o Dash \o tid \o Dash \o parentId \o Dash \o flags

createTraceparent(spanIdArg) == createTraceparentOf(traceId, spanId, traceSampled, spanIdArg)

NadiKey == <<"n", "a", "d", "i", "=">>

\* faulty variant: a configured trace state replaces the own entry
createTracestate_StateOnly ==
  IF Truthy(traceState) THEN traceState[1] ELSE NadiKey \o spanId

\* createTracestate()
createTracestate ==
  IF Truthy(traceState)
    THEN NadiKey \o spanId \o <<",">> \o traceState[1]
    ELSE NadiKey \o spanId

\* String.prototype.split(sep) for a one-character separator
RECURSIVE SplitFrom(_, _, _)
SplitFrom(str, sep, cur) ==
  IF str = <<>> THEN <<cur>>
  ELSE IF Head(str) = sep THEN <<cur>> \o SplitFrom(Tail(str), sep, <<>>)
  ELSE SplitFrom(Tail(str), sep, Append(cur, Head(str)))

Split(str, sep) == SplitFrom(str, sep, <<>>)

\* /^[0-9a-f]{n}$/.test(str)
IsLowerHex(str, n) == Len(str) = n /\ \A i \in 1..Len(str) : str[i] \in HexCharSet

\* parseInt(flags, 16) for two hexadecimal digits
ParseInt16(flags) == 16 * HexVal(flags[1]) + HexVal(flags[2])

TraceContext(tid, sid, smp, ts) ==
  [traceId |-> tid, spanId |-> sid, sampled |-> smp, traceState |-> ts]

\* faulty variant: all-zero identifiers are accepted
parseTraceparent_ZeroOk(header) ==
  IF ~NonEmpty(header) THEN None
  ELSE LET parts == Split(header, "-") IN
    IF Len(parts) # 4 THEN None
    ELSE IF parts[1] # <<"0", "0">> THEN None
    ELSE IF ~IsLowerHex(parts[2], 32) THEN None
    ELSE IF ~IsLowerHex(parts[3], 16) THEN None
    ELSE IF ~IsLowerHex(parts[4], 2) THEN None
    ELSE Some(TraceContext(parts[2], parts[3], (ParseInt16(parts[4]) % 2) = 1, None))

\* parseTraceparent(header): the context, or None for null
parseTraceparent(header) ==
  IF ~NonEmpty(header) THEN None
  ELSE LET parts == Split(header, "-") IN
    IF Len(parts) # 4 THEN None
    ELSE IF parts[1] # <<"0", "0">> THEN None
    ELSE IF ~IsLowerHex(parts[2], 32) \/ parts[2] = Repeat("0", 32) THEN None
    ELSE IF ~IsLowerHex(parts[3], 16) \/ parts[3] = Repeat("0", 16) THEN None
    ELSE IF ~IsLowerHex(parts[4], 2) THEN None
    ELSE Some(TraceContext(parts[2], parts[3], (ParseInt16(parts[4]) % 2) = 1, None))

\* getContext()
getContext == TraceContext(traceId, spanId, traceSampled, traceState)

(***************************************************************************)
(* URL resolution: new URL(url, window.location.origin), reduced to the     *)
(* URLs of the model: absolute URLs begin with the scheme, written as one   *)
(* element "https://", everything else is relative to the origin.           *)
(* Resolution fails (throws) on an empty host or a host with a space;       *)
(* the host is lower-cased and an empty path becomes "/".                   *)
(***************************************************************************)
Scheme == "https://"
Origin == <<Scheme, "a">>

ToLowerChar(c) == IF c = "A" THEN "a" ELSE IF c = "B" THEN "b" ELSE c
ToLower(str) == [i \in 1..Len(str) |-> ToLowerChar(str[i])]

\* the characters before the first "/" of str
RECURSIVE UpToSlash(_)
UpToSlash(str) ==
  IF str = <<>> \/ Head(str) = "/" THEN <<>> ELSE <<Head(str)>> \o UpToSlash(Tail(str))

\* Some([href, hostname]) or None when the constructor throws
ResolveUrl(url) ==
  IF url # <<>> /\ Head(url) = Scheme
    THEN LET rest == Tail(url)
             host == UpToSlash(rest)
             path == SubSeq(rest, Len(host) + 1, Len(rest))
         IN IF host = <<>> \/ (\E i \in 1..Len(host) : host[i] = " ")
              THEN None
              ELSE Some([href |-> <<Scheme>> \o ToLower(host)
                                    \o (IF path = <<>> THEN <<"/">> ELSE path),
                         hostname |-> ToLower(host)])
    ELSE Some([href |-> IF url # <<>> /\ Head(url) = "/"
                          THEN Origin \o url
                          ELSE Origin \o <<"/">> \o url,
               hostname |-> Tail(Origin)])

\* an element of propagateTraceUrls: a string or a RegExp (a literal without flags)
StringTarget(str) == [kind |-> "string", value |-> str]
RegExpTarget(literal) == [kind |-> "regexp", value |-> literal]

\* whether str contains sub
Contains(str, sub) ==
  \E i \in 1..(Len(str) - Len(sub) + 1) : SubSeq(str, i, i + Len(sub) - 1) = sub

\* one round of the loop over propagateUrls
TargetMatches(pattern, resolved) ==
  IF pattern.kind = "string"
    THEN StartsWith(resolved.href, pattern.value) \/ resolved.hostname = pattern.value
    ELSE Contains(resolved.href, pattern.value)

\* faulty variant: the enabled flag is not consulted
shouldPropagateIn_IgnoreEnabled(cfg, url) ==
  LET propagateUrls == IF cfg.propagateTraceUrls = None THEN <<>>
                       ELSE cfg.propagateTraceUrls[1]
  IN IF Len(propagateUrls) = 0 THEN FALSE
     ELSE LET resolved == ResolveUrl(url) IN
       IF resolved = None THEN FALSE
       ELSE \E i \in 1..Len(propagateUrls) : TargetMatches(propagateUrls[i], resolved[1])

\* shouldPropagate(url) under the configuration cfg
shouldPropagateIn(cfg, url) ==
  IF ~cfg.enabled THEN FALSE
  ELSE LET propagateUrls == IF cfg.propagateTraceUrls = None THEN <<>>
                            ELSE cfg.propagateTraceUrls[1]
       IN IF Len(propagateUrls) = 0 THEN FALSE
          ELSE LET resolved == ResolveUrl(url) IN
            IF resolved = None THEN FALSE
            ELSE \E i \in 1..Len(propagateUrls) :
                   TargetMatches(propagateUrls[i], resolved[1])

shouldPropagate(url) == shouldPropagateIn(tracingConfig, url)

\* a Record<string, string> with the given keys
EmptyHeaders == <<>>
Headers(keys, traceparent, tracestate) ==
  [k \in keys |-> IF k = "traceparent" THEN traceparent ELSE tracestate]

\* faulty variant: the allow-list is not consulted
getTraceHeaders_NoGate(url) ==
  LET tracestate == createTracestate IN
    IF NonEmpty(tracestate)
      THEN Headers({"traceparent", "tracestate"}, createTraceparent(None), tracestate)
      ELSE Headers({"traceparent"}, createTraceparent(None), tracestate)

\* getTraceHeaders(url)
getTraceHeaders(url) ==
  IF ~shouldPropagate(url) THEN EmptyHeaders
  ELSE LET tracestate == createTracestate IN
    IF NonEmpty(tracestate)
      THEN Headers({"traceparent", "tracestate"}, createTraceparent(None), tracestate)
      ELSE Headers({"traceparent"}, createTraceparent(None), tracestate)

(***************************************************************************)
(* TracingManager: the constructor and the methods.                         *)
(***************************************************************************)
\* a method of the TracingManager invoked directly: nothing else changes
TracingCall(op, arg, r, d) ==
  /\ Returned(op, arg, r, d)
  /\ UNCHANGED samplingVars
  /\ UNCHANGED nadiVars
  /\ UNCHANGED privacyVars
  /\ UNCHANGED hostVars

\* calls of Math.random made by one generateHexString(byteLength)
RandomCalls(byteLength) == IF hasCrypto THEN 0 ELSE 2 * byteLength

\* new TracingManager(cfg) in an environment with or without crypto,
\* for the outcomes e1, e2 of the entropy source
TracingConstruct(cfg, crypto, e1, e2) ==
  /\ hasCrypto = crypto
  /\ tracingConfig = [enabled |-> cfg.enabled,
                      propagateTraceUrls |-> cfg.propagateTraceUrls,
                      traceState |-> cfg.traceState]
  /\ traceId = generateTraceId(crypto, e1)
  /\ spanId = generateSpanId(crypto, e2)
  /\ traceSampled = TRUE
  /\ traceState = cfg.traceState

TracingConfig(enabled, urls, ts) ==
  [enabled |-> enabled, propagateTraceUrls |-> urls, traceState |-> ts]

GenerateTraceId ==
  \E e \in Entropy(TraceIdBytes, hasCrypto) :
    /\ TracingCall("generateTraceId", None, Some(generateTraceId(hasCrypto, e)),
                   RandomCalls(TraceIdBytes))
    /\ UNCHANGED tracingVars

GenerateSpanId ==
  \E e \in Entropy(SpanIdBytes, hasCrypto) :
    /\ TracingCall("generateSpanId", None, Some(generateSpanId(hasCrypto, e)),
                   RandomCalls(SpanIdBytes))
    /\ UNCHANGED tracingVars

CreateTraceparent(spanIdArg) ==
  /\ TracingCall("createTraceparent", Some(spanIdArg), Some(createTraceparent(spanIdArg)), 0)
  /\ UNCHANGED tracingVars

CreateTracestate ==
  /\ TracingCall("createTracestate", None, Some(createTracestate), 0)
  /\ UNCHANGED tracingVars

ParseTraceparent(header) ==
  /\ TracingCall("parseTraceparent", Some(header), parseTraceparent(header), 0)
  /\ UNCHANGED tracingVars

ShouldPropagate(url) ==
  /\ TracingCall("shouldPropagate", Some(url), Some(shouldPropagate(url)), 0)
  /\ UNCHANGED tracingVars

GetContext ==
  /\ TracingCall("getContext", None, Some(getContext), 0)
  /\ UNCHANGED tracingVars

GetTraceHeaders(url) ==
  /\ TracingCall("getTraceHeaders", Some(url), Some(getTraceHeaders(url)), 0)
  /\ UNCHANGED tracingVars

SetSampled(smp) ==
  /\ traceSampled' = smp
  /\ TracingCall("setSampled", Some(smp), None, 0)
  /\ UNCHANGED <<traceId, spanId, traceState, tracingConfig, hasCrypto>>

SetTraceState(ts) ==
  /\ traceState' = Some(ts)
  /\ TracingCall("setTraceState", Some(ts), None, 0)
  /\ UNCHANGED <<traceId, spanId, traceSampled, tracingConfig, hasCrypto>>

\* faulty variant: reset also forgets the trace state and the sampled flag
Reset_ClearsAll ==
  \E e1 \in Entropy(TraceIdBytes, hasCrypto), e2 \in Entropy(SpanIdBytes, hasCrypto) :
    /\ traceId' = generateTraceId(hasCrypto, e1)
    /\ spanId' = generateSpanId(hasCrypto, e2)
    /\ traceSampled' = TRUE
    /\ traceState' = None
    /\ TracingCall("reset", None, None, RandomCalls(TraceIdBytes) + RandomCalls(SpanIdBytes))
    /\ UNCHANGED <<tracingConfig, hasCrypto>>

Reset ==
  \E e1 \in Entropy(TraceIdBytes, hasCrypto), e2 \in Entropy(SpanIdBytes, hasCrypto) :
    /\ traceId' = generateTraceId(hasCrypto, e1)
    /\ spanId' = generateSpanId(hasCrypto, e2)
    /\ TracingCall("reset", None, None, RandomCalls(TraceIdBytes) + RandomCalls(SpanIdBytes))
    /\ UNCHANGED <<traceSampled, traceState, tracingConfig, hasCrypto>>

AdoptContext(context) ==
  /\ traceId' = context.traceId
  /\ spanId' = context.spanId
  /\ traceSampled' = context.sampled
  /\ traceState' = IF Truthy(context.traceState) THEN context.traceState ELSE traceState
  /\ TracingCall("adoptContext", Some(context), None, 0)
  /\ UNCHANGED <<tracingConfig, hasCrypto>>

(***************************************************************************)
(* Nadi: the error tracker and the breadcrumb collector wired to the        *)
(* sampling engine.  A breadcrumb is its type and message (the time stamp   *)
(* is left out); the message "Error captured" holds nothing the PII mask    *)
(* rewrites.                                                                *)
(***************************************************************************)
\* faulty variant: at the limit the new breadcrumb is the one dropped
breadcrumbsAdd_DropNewest(b, type, message) ==
  IF ~b.enabled THEN b
  ELSE LET pushed == Append(b.breadcrumbs, [type |-> type, message |-> message])
       IN [b EXCEPT !.breadcrumbs = IF Len(pushed) > b.maxBreadcrumbs
                                      THEN b.breadcrumbs ELSE pushed]

\* BreadcrumbCollector.add(type, message)
breadcrumbsAdd(b, type, message) ==
  IF ~b.enabled THEN b
  ELSE LET pushed == Append(b.breadcrumbs, [type |-> type, message |-> message])
       IN [b EXCEPT !.breadcrumbs = IF Len(pushed) > b.maxBreadcrumbs
                                      THEN Tail(pushed) ELSE pushed]

\* the history after BreadcrumbCollector.add(type, message)
Recorded(b, type, message) ==
  IF ~b.enabled THEN added ELSE Append(added, [type |-> type, message |-> message])

\* faulty variant: the callback leaves the sampling engine alone
onError_NoForce ==
  /\ breadcrumbs' = breadcrumbsAdd(breadcrumbs, "error", "Error captured")
  /\ added' = Recorded(breadcrumbs, "error", "Error captured")
  /\ UNCHANGED <<sessionSampled, sessionDecision>>

\* the onError callback Nadi hands to the ErrorTracker
onError ==
  /\ breadcrumbs' = breadcrumbsAdd(breadcrumbs, "error", "Error captured")
  /\ added' = Recorded(breadcrumbs, "error", "Error captured")
  /\ forceSampleSession

\* ErrorTracker.sendError as far as the state of the model goes: the callback
\* runs first, synchronously; the request that follows changes nothing here
sendError == onError

\* a handler or method of the ErrorTracker that does nothing
ErrorDropped ==
  UNCHANGED <<sessionSampled, sessionDecision, breadcrumbs, added>>

\* what every entry point of the ErrorTracker leaves alone
ErrorFrame(op, arg) ==
  /\ Returned(op, arg, None, 0)
  /\ UNCHANGED <<config, rules, errorCount, totalEvents, adaptiveRate, nextSeq, sessionEvals>>
  /\ UNCHANGED tracingVars
  /\ UNCHANGED privacyVars
  /\ UNCHANGED errorsEnabled
  /\ UNCHANGED hostVars

\* new Nadi(config) followed by start(): the collectors after Nadi.init
NadiInit(autoBreadcrumbs, autoErrors, maxBreadcrumbs) ==
  /\ errorsEnabled = autoErrors
  /\ breadcrumbs = [enabled |-> autoBreadcrumbs, maxBreadcrumbs |-> maxBreadcrumbs,
                    breadcrumbs |-> <<>>]
  /\ added = <<>>

\* Nadi.captureError(error)
CaptureError ==
  /\ IF ~errorsEnabled THEN ErrorDropped ELSE sendError
  /\ ErrorFrame("captureError", None)

\* Nadi.captureMessage(message)
CaptureMessage ==
  /\ IF ~errorsEnabled THEN ErrorDropped ELSE sendError
  /\ ErrorFrame("captureMessage", None)

\* the window 'error' listener; ignored is the outcome of shouldIgnoreError
ErrorEvent(ignored) ==
  /\ IF ~errorsEnabled \/ ignored THEN ErrorDropped ELSE sendError
  /\ ErrorFrame("error", Some(ignored))

\* the window 'unhandledrejection' listener
UnhandledRejection ==
  /\ IF ~errorsEnabled THEN ErrorDropped ELSE sendError
  /\ ErrorFrame("unhandledrejection", None)

\* Nadi.stop() as far as the two collectors go
Stop ==
  /\ breadcrumbs' = [breadcrumbs EXCEPT !.enabled = FALSE]
  /\ errorsEnabled' = FALSE
  /\ initialized' = FALSE
  /\ Returned("stop", None, None, 0)
  /\ UNCHANGED <<instance, created, starting>>
  /\ UNCHANGED aloneVars
  /\ UNCHANGED added
  /\ UNCHANGED samplingVars
  /\ UNCHANGED tracingVars
  /\ UNCHANGED privacyVars

(***************************************************************************)
(* Characters.  A text is the sequence of its characters; AsciiChars lists  *)
(* the printable ASCII characters in code order, from the space (32) on     *)
(* (the double quote, the backslash and the backtick are written by name).  *)
(***************************************************************************)
AsciiChars ==
  << " ", "!", "QUOTE", "#", "$", "%", "&", "'", "(", ")", "*", "+", ",", "-", ".", "/",
     "0", "1", "2", "3", "4", "5", "6", "7", "8", "9", ":", ";", "<", "=", ">", "?",
     "@", "A", "B", "C", "D", "E", "F", "G", "H", "I", "J", "K", "L", "M", "N", "O",
     "P", "Q", "R", "S", "T", "U", "V", "W", "X", "Y", "Z", "[", "BACKSLASH", "]", "^", "_",
     "BACKTICK", "a", "b", "c", "d", "e", "f", "g", "h", "i", "j", "k", "l", "m", "n", "o",
     "p", "q", "r", "s", "t", "u", "v", "w", "x", "y", "z", "{", "|", "}", "~" >>

\* String.prototype.charCodeAt for a printable ASCII character
CharCode(c) == 31 + (CHOOSE i \in 1..Len(AsciiChars) : AsciiChars[i] = c)

DigitSet == {AsciiChars[i] : i \in 17..26}
UpperSet == {AsciiChars[i] : i \in 34..59}
LowerSet == {AsciiChars[i] : i \in 66..91}

\* the class \w, on which \b is defined
WordSet == DigitSet \cup UpperSet \cup LowerSet \cup {"_"}

\* String.prototype.toLowerCase
LowerCase(str) ==
  [i \in 1..Len(str) |-> IF str[i] \in UpperSet
                           THEN AsciiChars[CharCode(str[i]) - 31 + 32]
                           ELSE str[i]]

(***************************************************************************)
(* Regular expressions.  A pattern is a sequence of items, each a character *)
(* class with a greedy quantifier {min,max}, optionally between two word    *)
(* boundaries (\b); all patterns carry the g flag, as the documentation     *)
(* requires of custom patterns.  The matcher backtracks as the JavaScript   *)
(* engine does: each item first takes as many characters as it can.  A      *)
(* pattern may be faulty: applying it throws (a RegExp whose exec throws).  *)
(***************************************************************************)
Unbounded == 1000

Item(class, min, max) == [class |-> class, min |-> min, max |-> max]

RegExp(items, boundaryBefore, boundaryAfter) ==
  [items |-> items, boundaryBefore |-> boundaryBefore, boundaryAfter |-> boundaryAfter,
   faulty |-> FALSE]

\* a RegExp object whose application throws
FaultyRegExp == [items |-> <<>>, boundaryBefore |-> FALSE, boundaryAfter |-> FALSE,
                 faulty |-> TRUE]

\* \b holds between positions i-1 and i of str
WordBoundary(str, i) ==
  LET before == i > 1 /\ str[i - 1] \in WordSet
      after == i <= Len(str) /\ str[i] \in WordSet
  IN before # after

\* the number of characters of the class from position i on, at most max
RECURSIVE Run(_, _, _, _)
Run(str, i, class, max) ==
  IF max = 0 \/ i > Len(str) \/ str[i] \notin class THEN 0
  ELSE 1 + Run(str, i + 1, class, max - 1)

\* MatchItems: the position after the match of items k.. of pattern that
\* starts at position i, or 0 when there is none; TryCount lets item k take
\* n characters, then n - 1, down to its minimum
RECURSIVE MatchItems(_, _, _, _)
RECURSIVE TryCount(_, _, _, _, _)
MatchItems(pattern, k, str, i) ==
  IF k > Len(pattern.items)
    THEN IF pattern.boundaryAfter /\ ~WordBoundary(str, i) THEN 0 ELSE i
    ELSE TryCount(pattern, k, str, i,
                  Run(str, i, pattern.items[k].class, pattern.items[k].max))

TryCount(pattern, k, str, i, n) ==
  IF n < pattern.items[k].min THEN 0
  ELSE LET end == MatchItems(pattern, k + 1, str, i + n) IN
    IF end # 0 THEN end ELSE TryCount(pattern, k, str, i, n - 1)

\* the position after the match starting exactly at i, or 0
MatchAt(pattern, str, i) ==
  IF pattern.boundaryBefore /\ ~WordBoundary(str, i) THEN 0
  ELSE MatchItems(pattern, 1, str, i)

\* RegExp.prototype.exec from lastIndex = from: the leftmost match at or
\* after from as [start, end), or None
RECURSIVE Exec(_, _, _)
Exec(pattern, str, from) ==
  IF from > Len(str) THEN None
  ELSE LET end == MatchAt(pattern, str, from) IN
    IF end # 0 THEN Some([start |-> from, end |-> end])
    ELSE Exec(pattern, str, from + 1)

\* String.prototype.match with a global pattern: all matches, left to right
RECURSIVE MatchAllFrom(_, _, _)
MatchAllFrom(pattern, str, from) ==
  LET m == Exec(pattern, str, from) IN
    IF m = None THEN <<>>
    ELSE <<SubSeq(str, m[1].start, m[1].end - 1)>> \o MatchAllFrom(pattern, str, m[1].end)

MatchAll(pattern, str) == MatchAllFrom(pattern, str, 1)

(***************************************************************************)
(* PrivacyManager: masking of text.  A call returns a value or throws.      *)
(***************************************************************************)
Returns(value) == [threw |-> FALSE, value |-> value]
Throws == [threw |-> TRUE, value |-> <<>>]

REDACTED == <<"[", "R", "E", "D", "A", "C", "T", "E", "D", "]">>

\* one round of simpleHash's loop on the 32-bit hash kept as two 16-bit
\* halves: hash = ((hash << 5) - hash + char) & itself
HashStep(h, char) ==
  LET low == h.lo * 31 + char
  IN [hi |-> (h.hi * 31 + low \div 65536) % 65536, lo |-> low % 65536]

RECURSIVE HashLoop(_, _, _)
HashLoop(str, i, h) ==
  IF i > Len(str) THEN h ELSE HashLoop(str, i + 1, HashStep(h, CharCode(str[i])))

\* Math.abs of the signed 32-bit value of h, again as two halves
HashAbs(h) ==
  IF h.hi < 32768 THEN h
  ELSE IF h.lo = 0 THEN [hi |-> 65536 - h.hi, lo |-> 0]
  ELSE [hi |-> 65535 - h.hi, lo |-> 65536 - h.lo]

Hex4(n) == <<HexDigit(n \div 4096), HexDigit((n \div 256) % 16),
             HexDigit((n \div 16) % 16), HexDigit(n % 16)>>

\* leading zeros dropped, as Number.prototype.toString(16) writes the number
RECURSIVE StripZeros(_)
StripZeros(digits) ==
  IF Len(digits) > 1 /\ Head(digits) = "0" THEN StripZeros(Tail(digits)) ELSE digits

\* simpleHash(str)
simpleHash(str) ==
  LET abs == HashAbs(HashLoop(str, 1, [hi |-> 0, lo |-> 0]))
      digits == StripZeros(Hex4(abs.hi) \o Hex4(abs.lo))
  IN SubSeq(digits, 1, Min(8, Len(digits)))

\* faulty variant: the partial strategy reveals short matches too
applyMaskingStrategy_NoShort(strategy, match) ==
  CASE strategy = "partial" ->
         <<match[1]>> \o Repeat("*", Len(match) - 2) \o <<match[Len(match)]>>
    [] strategy = "hash" -> <<"[", "H", "A", "S", "H", ":">> \o simpleHash(match) \o <<"]">>
    [] OTHER -> REDACTED

\* applyMaskingStrategy(match) under config.maskingStrategy = strategy
applyMaskingStrategy(strategy, match) ==
  CASE strategy = "partial" ->
         IF Len(match) <= 4 THEN REDACTED
         ELSE <<match[1]>> \o Repeat("*", Len(match) - 2) \o <<match[Len(match)]>>
    [] strategy = "hash" -> <<"[", "H", "A", "S", "H", ":">> \o simpleHash(match) \o <<"]">>
    [] OTHER -> REDACTED

\* str.replace(pattern, match => applyMaskingStrategy(match)) for a global
\* pattern, from position from on
RECURSIVE Replace(_, _, _, _)
Replace(pattern, str, from, strategy) ==
  LET m == Exec(pattern, str, from) IN
    IF m = None THEN SubSeq(str, from, Len(str))
    ELSE SubSeq(str, from, m[1].start - 1)
           \o applyMaskingStrategy(strategy, SubSeq(str, m[1].start, m[1].end - 1))
           \o Replace(pattern, str, m[1].end, strategy)

\* faulty variant: only the first match is replaced
replaceAll_FirstOnly(pattern, str, strategy) ==
  LET m == Exec(pattern, str, 1) IN
    IF m = None THEN str
    ELSE SubSeq(str, 1, m[1].start - 1)
           \o applyMaskingStrategy(strategy, SubSeq(str, m[1].start, m[1].end - 1))
           \o SubSeq(str, m[1].end, Len(str))

\* result.replace(pattern, ...) in maskPII
replaceAll(pattern, str, strategy) == Replace(pattern, str, 1, strategy)

\* the loop of maskPII over the registry from entry k on
RECURSIVE MaskLoop(_, _, _, _)
MaskLoop(registry, k, strategy, result) ==
  IF k > Len(registry) THEN Returns(result)
  ELSE IF registry[k].pattern.faulty THEN Throws
  ELSE MaskLoop(registry, k + 1, strategy, replaceAll(registry[k].pattern, result, strategy))

\* maskPII(text) under configuration cfg and the registry of patterns
maskPIIIn(cfg, registry, text) ==
  IF ~cfg.enabled \/ text = <<>> THEN Returns(text)
  ELSE MaskLoop(registry, 1, cfg.maskingStrategy, text)

\* an entry of this.patterns: the name, the RegExp and the RegExp's lastIndex
Entry(name, pattern, lastIndex) == [name |-> name, pattern |-> pattern, lastIndex |-> lastIndex]

\* email: /[a-zA-Z0-9._%+-]+@[a-zA-Z0-9.-]+\.[a-zA-Z]{2,}/g
EmailPattern ==
  RegExp(<<Item(LowerSet \cup UpperSet \cup DigitSet \cup {".", "_", "%", "+", "-"},
                1, Unbounded),
           Item({"@"}, 1, 1),
           Item(LowerSet \cup UpperSet \cup DigitSet \cup {".", "-"}, 1, Unbounded),
           Item({"."}, 1, 1),
           Item(LowerSet \cup UpperSet, 2, Unbounded)>>, FALSE, FALSE)

\* ssn: /\b\d{3}[-\s]?\d{2}[-\s]?\d{4}\b/g
SsnPattern ==
  RegExp(<<Item(DigitSet, 3, 3), Item({"-", " "}, 0, 1), Item(DigitSet, 2, 2),
           Item({"-", " "}, 0, 1), Item(DigitSet, 4, 4)>>, TRUE, TRUE)

\* the built-in patterns, in the order of the object literal.  Of the ten
\* built-ins the model keeps the two that match some text of the model; the
\* others (creditCard, usPhone, apiKey, ipv4, ipv6, bearerToken, jwt, uuid)
\* match nothing in any of those texts.
BuiltInPatterns == <<Entry("email", EmailPattern, 0), Entry("ssn", SsnPattern, 0)>>

Names(registry) == [i \in 1..Len(registry) |-> registry[i].name]

\* { ...registry, [entry.name]: entry }: an existing key keeps its place
PutEntry(registry, entry) ==
  IF Includes(Names(registry), entry.name)
    THEN [i \in 1..Len(registry) |->
            IF registry[i].name = entry.name THEN entry ELSE registry[i]]
    ELSE Append(registry, entry)

\* { ...registry, ...custom }
RECURSIVE Spread(_, _)
Spread(registry, custom) ==
  IF custom = <<>> THEN registry
  ELSE Spread(PutEntry(registry, Head(custom)), Tail(custom))

\* delete registry[name]
DeleteEntry(registry, name) == SelectSeq(registry, LAMBDA e : e.name # name)

\* the registry after a loop that applied its first k patterns: applying a
\* global pattern leaves its lastIndex at 0
Applied(registry, k) ==
  [i \in 1..Len(registry) |-> IF i <= k THEN [registry[i] EXCEPT !.lastIndex = 0]
                              ELSE registry[i]]

\* the index of the first faulty pattern, or Len + 1
FirstFaulty(registry) ==
  IF \E i \in 1..Len(registry) : registry[i].pattern.faulty
    THEN CHOOSE i \in 1..Len(registry) :
           /\ registry[i].pattern.faulty
           /\ \A j \in 1..(i - 1) : ~registry[j].pattern.faulty
    ELSE Len(registry) + 1

DetectionResult(hasPII, types, count) == [hasPII |-> hasPII, types |-> types, count |-> count]

\* the loop of detectPII over the registry from entry k on
RECURSIVE DetectLoop(_, _, _, _, _)
DetectLoop(registry, k, text, types, totalCount) ==
  IF k > Len(registry) THEN Returns(DetectionResult(Len(types) > 0, types, totalCount))
  ELSE IF registry[k].pattern.faulty THEN Throws
  ELSE LET matches == MatchAll(registry[k].pattern, text) IN
    IF Len(matches) > 0
      THEN DetectLoop(registry, k + 1, text, Append(types, registry[k].name),
                      totalCount + Len(matches))
      ELSE DetectLoop(registry, k + 1, text, types, totalCount)

\* faulty variant: every matching pattern counts once
detectPIIIn_CountTypes(registry, text) ==
  IF text = <<>> THEN Returns(DetectionResult(FALSE, <<>>, 0))
  ELSE LET r == DetectLoop(registry, 1, text, <<>>, 0) IN
    IF r.threw THEN r
    ELSE Returns(DetectionResult(r.value.hasPII, r.value.types, Len(r.value.types)))

\* detectPII(text) over the registry
detectPIIIn(registry, text) ==
  IF text = <<>> THEN Returns(DetectionResult(FALSE, <<>>, 0))
  ELSE DetectLoop(registry, 1, text, <<>>, 0)

(***************************************************************************)
(* PrivacyManager: masking of objects.  A JavaScript value is its kind and  *)
(* its content: nothing for null, the characters of a string, the number,   *)
(* the items of an array, the entries (key, value) of an object in order.   *)
(***************************************************************************)
NullValue == [kind |-> "null", value |-> <<>>]
StringValue(str) == [kind |-> "string", value |-> str]
NumberValue(n) == [kind |-> "number", value |-> <<n>>]
ArrayValue(items) == [kind |-> "array", value |-> items]
ObjectValue(entries) == [kind |-> "object", value |-> entries]
Property(key, value) == [key |-> key, value |-> value]

\* faulty variant: the field name must equal a sensitive name
isSensitiveField_ExactOnly(fieldName, sensitiveFields) ==
  LET lowerFieldName == LowerCase(fieldName) IN
    \E i \in 1..Len(sensitiveFields) : lowerFieldName = LowerCase(sensitiveFields[i])

\* isSensitiveField(fieldName, sensitiveFields)
isSensitiveField(fieldName, sensitiveFields) ==
  LET lowerFieldName == LowerCase(fieldName) IN
    \E i \in 1..Len(sensitiveFields) :
      \/ lowerFieldName = LowerCase(sensitiveFields[i])
      \/ Contains(lowerFieldName, LowerCase(sensitiveFields[i]))

\* the closure mask(value, key) of maskObject, for a registry whose patterns
\* do not throw; key is None where the closure is called without a key
RECURSIVE Mask(_, _, _, _, _)
Mask(cfg, registry, sensitiveFields, value, key) ==
  IF value.kind = "null" THEN value
  ELSE IF Truthy(key) /\ isSensitiveField(key[1], sensitiveFields)
    THEN StringValue(REDACTED)
  ELSE IF value.kind = "string"
    THEN StringValue(maskPIIIn(cfg, registry, value.value).value)
  ELSE IF value.kind = "array"
    THEN ArrayValue([i \in 1..Len(value.value) |->
                       Mask(cfg, registry, sensitiveFields, value.value[i], None)])
  ELSE IF value.kind = "object"
    THEN ObjectValue([i \in 1..Len(value.value) |->
                        Property(value.value[i].key,
                                 Mask(cfg, registry, sensitiveFields,
                                      value.value[i].value, Some(value.value[i].key)))])
  ELSE value

\* whether mask(value, key) reaches maskPII with a non-empty text
RECURSIVE MasksText(_, _, _)
MasksText(sensitiveFields, value, key) ==
  IF value.kind = "null" THEN FALSE
  ELSE IF Truthy(key) /\ isSensitiveField(key[1], sensitiveFields) THEN FALSE
  ELSE IF value.kind = "string" THEN value.value # <<>>
  ELSE IF value.kind = "array"
    THEN \E i \in 1..Len(value.value) : MasksText(sensitiveFields, value.value[i], None)
  ELSE IF value.kind = "object"
    THEN \E i \in 1..Len(value.value) :
           MasksText(sensitiveFields, value.value[i].value, Some(value.value[i].key))
  ELSE FALSE

\* faulty variant: the object is masked whether or not masking is enabled
maskObjectIn_NoGate(cfg, registry, obj, additionalFields) ==
  IF obj.kind \notin {"array", "object"} THEN Returns(obj)
  ELSE Returns(Mask(cfg, registry,
                    (IF cfg.sensitiveFields = None THEN <<>> ELSE cfg.sensitiveFields[1])
                      \o additionalFields,
                    obj, None))

\* maskObject(obj, additionalFields)
maskObjectIn(cfg, registry, obj, additionalFields) ==
  IF ~cfg.enabled \/ obj.kind \notin {"array", "object"} THEN Returns(obj)
  ELSE LET sensitiveFields ==
             (IF cfg.sensitiveFields = None THEN <<>> ELSE cfg.sensitiveFields[1])
               \o additionalFields
       IN IF FirstFaulty(registry) <= Len(registry) /\ MasksText(sensitiveFields, obj, None)
            THEN Throws
            ELSE Returns(Mask(cfg, registry, sensitiveFields, obj, None))

\* a breadcrumb as maskBreadcrumb reads it: message and data, each optional
Crumb(message, data) == [message |-> message, data |-> data]

\* maskBreadcrumb(breadcrumb)
maskBreadcrumbIn(cfg, registry, breadcrumb) ==
  IF ~cfg.enabled THEN Returns(breadcrumb)
  ELSE LET message == IF Truthy(breadcrumb.message)
                        THEN maskPIIIn(cfg, registry, breadcrumb.message[1])
                        ELSE Returns(<<>>)
           data == IF breadcrumb.data # None
                     THEN maskObjectIn(cfg, registry, breadcrumb.data[1], <<>>)
                     ELSE Returns(NullValue)
       IN IF message.threw \/ data.threw THEN Throws
          ELSE Returns(Crumb(IF Truthy(breadcrumb.message) THEN Some(message.value)
                             ELSE breadcrumb.message,
                             IF breadcrumb.data # None THEN Some(data.value)
                             ELSE breadcrumb.data))

(***************************************************************************)
(* PrivacyManager: scrubbing of URLs.  new URL(url, window.location.origin) *)
(* splits an address into host, pathname, query and hash; the page's origin *)
(* is Origin.  The addresses of the model are written in lower case with   *)
(* no credentials, port or dot segments and no characters that the URL     *)
(* parser would escape, so the parser keeps each component as written.     *)
(***************************************************************************)
FirstIn(str, stops) ==
  IF \E i \in 1..Len(str) : str[i] \in stops
    THEN CHOOSE i \in 1..Len(str) :
           /\ str[i] \in stops
           /\ \A j \in 1..(i - 1) : str[j] \notin stops
    ELSE Len(str) + 1

From(str, i) == SubSeq(str, i, Len(str))

\* new URL(url, window.location.origin): None where the constructor throws
ParseUrl(url) ==
  LET absolute == url # <<>> /\ Head(url) = Scheme
      rest == IF absolute THEN Tail(url) ELSE url
      hostEnd == FirstIn(rest, {"/", "?", "#"})
      host == IF absolute THEN SubSeq(rest, 1, hostEnd - 1) ELSE Tail(Origin)
      after == IF absolute THEN From(rest, hostEnd)
               ELSE IF rest # <<>> /\ Head(rest) \in {"/", "?", "#"} THEN rest
               ELSE <<"/">> \o rest
      pathEnd == FirstIn(after, {"?", "#"})
      path == SubSeq(after, 1, pathEnd - 1)
      afterPath == From(after, pathEnd)
      hashStart == FirstIn(afterPath, {"#"})
  IN IF absolute /\ (host = <<>> \/ Includes(host, " "))
       THEN None
       ELSE Some([host |-> host,
                  pathname |-> IF path = <<>> THEN <<"/">> ELSE path,
                  query |-> IF afterPath # <<>> /\ Head(afterPath) = "?"
                              THEN SubSeq(afterPath, 2, hashStart - 1) ELSE <<>>,
                  hash |-> From(afterPath, hashStart)])

\* URL.prototype.href
Href(urlObj) ==
  <<Scheme>> \o urlObj.host \o urlObj.pathname
    \o (IF urlObj.query = <<>> THEN <<>> ELSE <<"?">> \o urlObj.query) \o urlObj.hash

RECURSIVE SplitOn(_, _)
SplitOn(str, sep) ==
  LET i == FirstIn(str, {sep}) IN
    IF i > Len(str) THEN <<str>>
    ELSE <<SubSeq(str, 1, i - 1)>> \o SplitOn(From(str, i + 1), sep)

RECURSIVE Join(_, _)
Join(parts, sep) ==
  IF parts = <<>> THEN <<>>
  ELSE IF Len(parts) = 1 THEN parts[1]
  ELSE parts[1] \o <<sep>> \o Join(Tail(parts), sep)

UpperHexChars == <<"0", "1", "2", "3", "4", "5", "6", "7",
                   "8", "9", "A", "B", "C", "D", "E", "F">>
UpperHexVal(c) == (CHOOSE n \in 1..16 : UpperHexChars[n] = c) - 1
IsUpperHex(c) == \E n \in 1..16 : UpperHexChars[n] = c

\* the application/x-www-form-urlencoded serialisation of one character
FormEncodeChar(c) ==
  IF c \in DigitSet \cup UpperSet \cup LowerSet \cup {"*", "-", ".", "_"} THEN <<c>>
  ELSE IF c = " " THEN <<"+">>
  ELSE <<"%", UpperHexChars[(CharCode(c) \div 16) + 1], UpperHexChars[(CharCode(c) % 16) + 1]>>

RECURSIVE FormEncode(_)
FormEncode(str) ==
  IF str = <<>> THEN <<>> ELSE FormEncodeChar(Head(str)) \o FormEncode(Tail(str))

\* the application/x-www-form-urlencoded parsing of one name or value
RECURSIVE FormDecode(_)
FormDecode(str) ==
  IF str = <<>> THEN <<>>
  ELSE IF Head(str) = "+" THEN <<" ">> \o FormDecode(Tail(str))
  ELSE IF /\ Head(str) = "%" /\ Len(str) >= 3
          /\ IsUpperHex(str[2]) /\ IsUpperHex(str[3])
          /\ 16 * UpperHexVal(str[2]) + UpperHexVal(str[3]) \in 32..126
    THEN <<AsciiChars[16 * UpperHexVal(str[2]) + UpperHexVal(str[3]) - 31]>>
           \o FormDecode(From(str, 4))
  ELSE <<Head(str)>> \o FormDecode(Tail(str))

Param(name, value) == [name |-> name, value |-> value]

\* URL.prototype.searchParams: the (name, value) pairs of the query, in order
SearchParams(query) ==
  LET pieces == SelectSeq(SplitOn(query, "&"), LAMBDA piece : piece # <<>>) IN
    [i \in 1..Len(pieces) |->
       LET eq == FirstIn(pieces[i], {"="}) IN
         Param(FormDecode(SubSeq(pieces[i], 1, eq - 1)), FormDecode(From(pieces[i], eq + 1)))]

\* faulty variant: only the first pair of the query is looked at
ParamsHas_FirstOnly(params, name) == params # <<>> /\ params[1].name = name

\* URLSearchParams.prototype.has
ParamsHas(params, name) == \E i \in 1..Len(params) : params[i].name = name

\* URLSearchParams.prototype.set: the first pair of the name takes the value,
\* the others of the name go
ParamsSet(params, name, value) ==
  LET first == CHOOSE i \in 1..Len(params) :
                 /\ params[i].name = name
                 /\ \A j \in 1..(i - 1) : params[j].name # name
      kept == SelectSeq([i \in 1..Len(params) |-> [at |-> i, param |-> params[i]]],
                        LAMBDA e : e.param.name # name \/ e.at = first)
  IN IF ParamsHas(params, name)
       THEN [i \in 1..Len(kept) |->
               IF kept[i].at = first THEN Param(name, value) ELSE kept[i].param]
       ELSE Append(params, Param(name, value))

\* URLSearchParams.prototype.toString
ParamsToString(params) ==
  Join([i \in 1..Len(params) |->
          FormEncode(params[i].name) \o <<"=">> \o FormEncode(params[i].value)], "&")

\* the loop of scrubUrl over config.sensitiveUrlParams
RECURSIVE ScrubParams(_, _, _)
ScrubParams(params, sensitiveUrlParams, k) ==
  IF k > Len(sensitiveUrlParams) THEN params
  ELSE ScrubParams(IF ParamsHas(params, sensitiveUrlParams[k])
                     THEN ParamsSet(params, sensitiveUrlParams[k], REDACTED)
                     ELSE params,
                   sensitiveUrlParams, k + 1)

\* scrubUrl(url)
scrubUrlIn(cfg, registry, url) ==
  IF ~cfg.enabled \/ url = <<>> THEN Returns(url)
  ELSE IF ParseUrl(url) = None THEN maskPIIIn(cfg, registry, url)
  ELSE LET urlObj == ParseUrl(url)[1]
           params == SearchParams(urlObj.query)
           sensitiveUrlParams ==
             IF cfg.sensitiveUrlParams = None THEN <<>> ELSE cfg.sensitiveUrlParams[1]
           scrubbed == ScrubParams(params, sensitiveUrlParams, 1)
           touched == \E k \in 1..Len(sensitiveUrlParams) :
                        ParamsHas(params, sensitiveUrlParams[k])
           maskedPath == maskPIIIn(cfg, registry, urlObj.pathname)
       IN IF maskedPath.threw THEN maskPIIIn(cfg, registry, url)
          ELSE LET maskedHash == maskPIIIn(cfg, registry, urlObj.hash).value
                   modified == \/ touched
                               \/ maskedPath.value # urlObj.pathname
                               \/ maskedHash # urlObj.hash
               IN Returns(IF modified
                            THEN Href([urlObj EXCEPT
                                         !.query = IF touched THEN ParamsToString(scrubbed)
                                                   ELSE urlObj.query,
                                         !.pathname = maskedPath.value,
                                         !.hash = maskedHash])
                            ELSE url)

(***************************************************************************)
(* PrivacyManager: the constructor and the methods.  config holds enabled,  *)
(* maskingStrategy, sensitiveUrlParams and sensitiveFields (the key         *)
(* customPIIPatterns of config is read only when it is passed in, and is    *)
(* left out); a partial configuration gives each key or None.               *)
(***************************************************************************)
DefaultSensitiveUrlParams ==
  << <<"p", "a", "s", "s", "w", "o", "r", "d">>,
     <<"p", "w", "d">>,
     <<"p", "a", "s", "s">>,
     <<"s", "e", "c", "r", "e", "t">>,
     <<"t", "o", "k", "e", "n">>,
     <<"a", "p", "i", "_", "k", "e", "y">>,
     <<"a", "p", "i", "k", "e", "y">>,
     <<"a", "p", "i", "-", "k", "e", "y">>,
     <<"a", "u", "t", "h">>,
     <<"a", "u", "t", "h", "o", "r", "i", "z", "a", "t", "i", "o", "n">>,
     <<"a", "c", "c", "e", "s", "s", "_", "t", "o", "k", "e", "n">>,
     <<"r", "e", "f", "r", "e", "s", "h", "_", "t", "o", "k", "e", "n">>,
     <<"s", "e", "s", "s", "i", "o", "n">>,
     <<"s", "e", "s", "s", "i", "o", "n", "i", "d">>,
     <<"s", "e", "s", "s", "i", "o", "n", "_", "i", "d">>,
     <<"c", "r", "e", "d", "i", "t", "_", "c", "a", "r", "d">>,
     <<"c", "r", "e", "d", "i", "t", "c", "a", "r", "d">>,
     <<"c", "c">>,
     <<"c", "v", "v">>,
     <<"s", "s", "n">>,
     <<"s", "o", "c", "i", "a", "l", "_", "s", "e", "c", "u", "r", "i", "t", "y">>,
     <<"e", "m", "a", "i", "l">>,
     <<"p", "h", "o", "n", "e">>,
     <<"m", "o", "b", "i", "l", "e">> >>

DefaultSensitiveFields ==
  << <<"p", "a", "s", "s", "w", "o", "r", "d">>,
     <<"p", "w", "d">>,
     <<"p", "a", "s", "s">>,
     <<"s", "e", "c", "r", "e", "t">>,
     <<"t", "o", "k", "e", "n">>,
     <<"a", "p", "i", "K", "e", "y">>,
     <<"a", "p", "i", "_", "k", "e", "y">>,
     <<"a", "u", "t", "h", "o", "r", "i", "z", "a", "t", "i", "o", "n">>,
     <<"a", "u", "t", "h">>,
     <<"a", "c", "c", "e", "s", "s", "T", "o", "k", "e", "n">>,
     <<"a", "c", "c", "e", "s", "s", "_", "t", "o", "k", "e", "n">>,
     <<"r", "e", "f", "r", "e", "s", "h", "T", "o", "k", "e", "n">>,
     <<"r", "e", "f", "r", "e", "s", "h", "_", "t", "o", "k", "e", "n">>,
     <<"c", "r", "e", "d", "i", "t", "C", "a", "r", "d">>,
     <<"c", "r", "e", "d", "i", "t", "_", "c", "a", "r", "d">>,
     <<"c", "a", "r", "d", "N", "u", "m", "b", "e", "r">>,
     <<"c", "a", "r", "d", "_", "n", "u", "m", "b", "e", "r">>,
     <<"c", "v", "v">>,
     <<"c", "v", "c">>,
     <<"s", "s", "n">>,
     <<"s", "o", "c", "i", "a", "l", "S", "e", "c", "u", "r", "i", "t", "y">>,
     <<"s", "o", "c", "i", "a", "l", "_", "s", "e", "c", "u", "r", "i", "t", "y">> >>

DEFAULT_PRIVACY_CONFIG ==
  [enabled |-> TRUE, sensitiveUrlParams |-> Some(DefaultSensitiveUrlParams),
   maskingStrategy |-> "redact", sensitiveFields |-> Some(DefaultSensitiveFields)]

PartialPrivacyConfig(enabled, sensitiveUrlParams, maskingStrategy, sensitiveFields,
                     customPIIPatterns) ==
  [enabled |-> enabled, sensitiveUrlParams |-> sensitiveUrlParams,
   maskingStrategy |-> maskingStrategy, sensitiveFields |-> sensitiveFields,
   customPIIPatterns |-> customPIIPatterns]

\* { ...base, ...partial } on the keys of config
MergeConfig(base, partial) ==
  [enabled |-> IF partial.enabled = None THEN base.enabled ELSE partial.enabled[1],
   sensitiveUrlParams |-> IF partial.sensitiveUrlParams = None THEN base.sensitiveUrlParams
                          ELSE partial.sensitiveUrlParams,
   maskingStrategy |-> IF partial.maskingStrategy = None THEN base.maskingStrategy
                       ELSE partial.maskingStrategy[1],
   sensitiveFields |-> IF partial.sensitiveFields = None THEN base.sensitiveFields
                       ELSE partial.sensitiveFields]

\* the registry after the customPIIPatterns of a partial configuration
WithCustom(registry, partial) ==
  IF partial.customPIIPatterns = None THEN registry
  ELSE Spread(registry, partial.customPIIPatterns[1])

\* new PrivacyManager(partial)
PrivacyConstruct(partial) ==
  /\ privacyConfig = MergeConfig(DEFAULT_PRIVACY_CONFIG, partial)
  /\ patterns = WithCustom(BuiltInPatterns, partial)

\* a method of the PrivacyManager invoked directly: nothing else changes
PrivacyCall(op, arg, r) ==
  /\ Returned(op, arg, r, 0)
  /\ UNCHANGED samplingVars
  /\ UNCHANGED tracingVars
  /\ UNCHANGED nadiVars
  /\ UNCHANGED hostVars

\* the registry after a loop over it that stops at the first pattern that
\* throws: each pattern applied is left with lastIndex = 0
Touched(registry) == Applied(registry, FirstFaulty(registry) - 1)

MaskPII(text) ==
  /\ patterns' = IF privacyConfig.enabled /\ text # <<>> THEN Touched(patterns) ELSE patterns
  /\ PrivacyCall("maskPII", Some(text), Some(maskPIIIn(privacyConfig, patterns, text)))
  /\ UNCHANGED privacyConfig

MaskObject(obj, additionalFields) ==
  /\ patterns' =
       IF /\ privacyConfig.enabled
          /\ obj.kind \in {"array", "object"}
          /\ MasksText((IF privacyConfig.sensitiveFields = None THEN <<>>
                        ELSE privacyConfig.sensitiveFields[1]) \o additionalFields,
                       obj, None)
         THEN Touched(patterns) ELSE patterns
  /\ PrivacyCall("maskObject", Some([obj |-> obj, additionalFields |-> additionalFields]),
                 Some(maskObjectIn(privacyConfig, patterns, obj, additionalFields)))
  /\ UNCHANGED privacyConfig

ScrubUrl(url) ==
  /\ patterns' = IF privacyConfig.enabled /\ url # <<>> THEN Touched(patterns) ELSE patterns
  /\ PrivacyCall("scrubUrl", Some(url), Some(scrubUrlIn(privacyConfig, patterns, url)))
  /\ UNCHANGED privacyConfig

DetectPII(text) ==
  /\ patterns' = IF text # <<>> THEN Touched(patterns) ELSE patterns
  /\ PrivacyCall("detectPII", Some(text), Some(detectPIIIn(patterns, text)))
  /\ UNCHANGED privacyConfig

UpdateConfig(partial) ==
  /\ privacyConfig' = MergeConfig(privacyConfig, partial)
  /\ patterns' = WithCustom(patterns, partial)
  /\ PrivacyCall("updateConfig", Some(partial), None)

\* faulty variant: a name already registered keeps its pattern
AddPattern_KeepOld(name, pattern) ==
  /\ patterns' = IF Includes(Names(patterns), name) THEN patterns
                 ELSE PutEntry(patterns, Entry(name, pattern.pattern, pattern.lastIndex))
  /\ PrivacyCall("addPattern", Some([name |-> name, pattern |-> pattern]), None)
  /\ UNCHANGED privacyConfig

\* addPattern(name, pattern); the pattern object comes with its lastIndex
AddPattern(name, pattern) ==
  /\ patterns' = PutEntry(patterns, Entry(name, pattern.pattern, pattern.lastIndex))
  /\ PrivacyCall("addPattern", Some([name |-> name, pattern |-> pattern]), None)
  /\ UNCHANGED privacyConfig

RemovePattern(name) ==
  /\ patterns' = DeleteEntry(patterns, name)
  /\ PrivacyCall("removePattern", Some(name), None)
  /\ UNCHANGED privacyConfig

MaskBreadcrumb(breadcrumb) ==
  /\ patterns' =
       IF /\ privacyConfig.enabled
          /\ \/ Truthy(breadcrumb.message)
             \/ /\ breadcrumb.data # None
                /\ breadcrumb.data[1].kind \in {"array", "object"}
                /\ MasksText(IF privacyConfig.sensitiveFields = None THEN <<>>
                             ELSE privacyConfig.sensitiveFields[1],
                             breadcrumb.data[1], None)
         THEN Touched(patterns) ELSE patterns
  /\ PrivacyCall("maskBreadcrumb", Some(breadcrumb),
                 Some(maskBreadcrumbIn(privacyConfig, patterns, breadcrumb)))
  /\ UNCHANGED privacyConfig

(***************************************************************************)
(* PrivacyManager: validation of card numbers.                              *)
(***************************************************************************)
\* number.replace(/[\s-]/g, '') on printable ASCII
StripSeparators(number) == SelectSeq(number, LAMBDA c : c \notin {" ", "-"})

\* parseInt(digits[i], 10)
DigitValue(c) == CharCode(c) - 48

\* faulty variant: a doubled digit above 9 is kept as it is
LuhnDigit_NoWrap(digit, isEven) == IF isEven THEN digit * 2 ELSE digit

\* the body of the loop of isValidCreditCard: what a digit adds to the sum
LuhnDigit(digit, isEven) ==
  IF isEven THEN (IF digit * 2 > 9 THEN digit * 2 - 9 ELSE digit * 2) ELSE digit

\* the loop of isValidCreditCard from index i down
RECURSIVE LuhnLoop(_, _, _, _)
LuhnLoop(digits, i, sum, isEven) ==
  IF i < 1 THEN sum
  ELSE LuhnLoop(digits, i - 1, sum + LuhnDigit(DigitValue(digits[i]), isEven), ~isEven)

\* isValidCreditCard(number)
isValidCreditCard(number) ==
  LET digits == StripSeparators(number) IN
    IF ~(Len(digits) \in 13..19 /\ \A i \in 1..Len(digits) : digits[i] \in DigitSet)
      THEN FALSE
      ELSE LuhnLoop(digits, Len(digits), 0, FALSE) % 10 = 0

IsValidCreditCard(number) ==
  /\ PrivacyCall("isValidCreditCard", Some(number), Some(isValidCreditCard(number)))
  /\ UNCHANGED privacyVars

(***************************************************************************)
(* Inputs.                                                                  *)
(***************************************************************************)
PathA == <<"/", "a">>
PathAB == <<"/", "a", "b">>
PathB == <<"/", "b">>

Context(route, hasError, deviceType, isSlowSession, connectionType) ==
  [route |-> route, hasError |-> hasError, deviceType |-> deviceType,
   isSlowSession |-> isSlowSession, connectionType |-> connectionType]

CtxPlain == Context(Some(PathB), FALSE, Some("desktop"), FALSE, Some("wifi"))
CtxMobileAB == Context(Some(PathAB), FALSE, Some("mobile"), FALSE, Some("4g"))
CtxError == Context(Some(PathAB), TRUE, Some("mobile"), FALSE, None)
CtxSlow == Context(Some(PathA), FALSE, None, TRUE, None)
CtxErrorSlow == Context(Some(PathAB), TRUE, Some("mobile"), TRUE, Some("4g"))
CtxBare == Context(None, FALSE, None, FALSE, None)

Rule(name, match, rate, priority) ==
  [name |-> name, match |-> match, rate |-> rate, priority |-> priority]

\* SamplingManager.createRouteRule(name, pattern, rate, priority)
createRouteRule(name, pattern, rate, priority) ==
  Rule(name, [kind |-> "route", pattern |-> pattern], rate, priority)

\* SamplingManager.createDeviceTypeRule(name, deviceType, rate, priority)
createDeviceTypeRule(name, deviceType, rate, priority) ==
  Rule(name, [kind |-> "device", deviceType |-> deviceType], rate, priority)

\* SamplingManager.createConnectionTypeRule(name, connectionType, rate, priority)
createConnectionTypeRule(name, connectionType, rate, priority) ==
  Rule(name, [kind |-> "connection", connectionType |-> connectionType], rate, priority)

RuleRouteA == createRouteRule("route-a", PathA, 0, 50)
RuleMobile == createDeviceTypeRule("mobile", "mobile", 1000, 50)
RuleRouteAB == createRouteRule("route-ab", PathAB, 500, 100)
RuleWifi == createConnectionTypeRule("wifi", "wifi", 250, 30)

ServerRuleAll == [name |-> "all", rate |-> 1500, priority |-> 50, conditions |-> None]
ServerRuleMobileA ==
  [name |-> "route-a", rate |-> 250, priority |-> 100,
   conditions |-> Some([routes |-> Some(<<PathB, PathA>>),
                        deviceTypes |-> Some(<<"mobile", "tablet">>),
                        connectionTypes |-> None])]

\* conditions of a server rule or of an entry of samplingRules
Conditions(routes, deviceTypes, connectionTypes) ==
  Some([routes |-> routes, deviceTypes |-> deviceTypes, connectionTypes |-> connectionTypes])

EmptyPath == <<>>

ConditionPool ==
  {None} \cup
  {Conditions(r, dt, ct) :
     r \in {None, Some(<<>>), Some(<<PathB, PathA>>), Some(<<EmptyPath>>)},
     dt \in {None, Some(<<"mobile", "tablet">>)},
     ct \in {None, Some(<<"wifi">>)}}

ConditionRule(name, conditions) ==
  [name |-> name, rate |-> 1000, priority |-> 50, conditions |-> conditions]

MatchContexts ==
  {Context(r, FALSE, dt, FALSE, ct) :
     r \in {None, Some(EmptyPath), Some(PathAB), Some(PathB)},
     dt \in {None, Some("mobile"), Some("desktop")},
     ct \in {None, Some(""), Some("wifi")}}

Config(globalRate, rs, errors, slow, adaptive) ==
  [globalRate |-> globalRate, rules |-> rs, alwaysSampleErrors |-> errors,
   alwaysSampleSlowSessions |-> slow, adaptiveSampling |-> adaptive]

\* the partial configuration {}
EmptyPrivacyConfig == PartialPrivacyConfig(None, None, None, None, None)

\* the privacy manager of a Nadi instance: new PrivacyManager()
PrivacyIdle == PrivacyConstruct(EmptyPrivacyConfig)

\* the tracing manager and the collectors of a Nadi instance with tracing off,
\* automatic capture off and the strong entropy source
\* the page after Nadi.init(config) has run and start() has finished
\* new PageLoadCollector(config) on a page that has loaded
PageLoadIdle ==
  /\ pageLoad = [sent |-> FALSE, enabled |-> FALSE]
  /\ readyState = "complete"
  /\ loadListeners = 0
  /\ loadTimers = 0
  /\ hasNavigation = TRUE
  /\ pageLoadsSent = 0

\* new InteractionsCollector(config) with the default threshold and window
\* (3 clicks, 1000 ms), started
ClickIdle ==
  /\ clock = 0
  /\ clickConfig = [threshold |-> 3, windowMs |-> 1000]
  /\ clicks = <<>>
  /\ rageClicks = <<>>
  /\ clickLog = <<>>

\* new LongTaskCollector(config)
LongTasksIdle ==
  /\ longTasks = [enabled |-> FALSE, tasks |-> <<>>]
  /\ pendingSends = 0
  /\ hasBeacon = TRUE
  /\ taskCount = 0
  /\ transmitted = <<>>

\* new SessionManager(config)
SessionIdle ==
  /\ session = <<>>
  /\ timeoutId = <<>>
  /\ timers = {}
  /\ awaiting = <<>>
  /\ listenerSets = 0
  /\ sessionCount = 0
  /\ timerCount = 0
  /\ messages = <<>>

AloneIdle ==
  /\ PageLoadIdle
  /\ ClickIdle
  /\ LongTasksIdle
  /\ SessionIdle

HostIdle ==
  /\ instance = <<1>>
  /\ created = 1
  /\ initialized = TRUE
  /\ starting = <<>>
  /\ AloneIdle

CollectorsIdle ==
  /\ HostIdle
  /\ TracingConstruct(TracingConfig(FALSE, None, None), TRUE,
                      [i \in 1..TraceIdBytes |-> 171], [i \in 1..SpanIdBytes |-> 171])
  /\ NadiInit(FALSE, FALSE, 50)
  /\ PrivacyIdle

(***************************************************************************)
(* Spec: the session life cycle under every method of the manager.          *)
(***************************************************************************)
Init ==
  /\ \E adaptive \in BOOLEAN :
       Construct(Config(300, <<RuleRouteA>>, TRUE, TRUE, adaptive))
  /\ CollectorsIdle

Next ==
  \/ \E ctx \in {CtxPlain, CtxError} : ShouldSample(ctx)
  \/ \E ctx \in {CtxPlain, CtxMobileAB, CtxError} : ShouldSampleSession(ctx)
  \/ GetSessionDecision
  \/ ForceSampleSession
  \/ ResetSession
  \/ nextSeq <= MaxInserts /\ AddRule(RuleMobile)
  \/ \E name \in {"route-a", "mobile"} : RemoveRule(name)
  \/ nextSeq <= MaxInserts /\ LoadServerRules(<<ServerRuleMobileA>>)
  \/ \E rate \in {0, 1500} : SetGlobalRate(rate)
  \/ totalEvents < MaxSessionEvents /\ \E hasError \in BOOLEAN : RecordEvent(hasError)
  \/ \E enabled \in BOOLEAN : SetAlwaysSampleErrors(enabled)
  \/ GetConfig

Spec == Init /\ [][Next]_vars

(***************************************************************************)
(* Claims about the session life cycle, checked under Spec.                 *)
(***************************************************************************)
IsForced == sessionSampled = Some(TRUE) /\ sessionDecision = Some(ForcedDecision)

\* C1: forced-sampling monotonicity.  forceSampleSession() leaves the session
\* forced, and from a forced session every step other than resetSession()
\* leaves it forced (getSessionDecision() returns the forced decision) and
\* every shouldSampleSession(ctx) returns true, whatever the context and
\* whatever other methods are interleaved.
C1_ForcedMonotone ==
  [][ /\ lastOp' = "forceSampleSession" => IsForced'
      /\ (IsForced /\ lastOp' # "resetSession") =>
           /\ IsForced'
           /\ lastOp' = "shouldSampleSession" => ret' = Some(TRUE)
           /\ lastOp' = "getSessionDecision" => ret' = Some(ForcedDecision) ]_vars

\* a forced session was asked with a context that an evaluation would not
\* have sampled, after rules and the global rate were changed, and said true
C1_Witness ==
  /\ IsForced
  /\ lastOp = "shouldSampleSession"
  /\ ret = Some(TRUE)
  /\ ~shouldSample(lastArg[1], 999).decision.sampled
  /\ config.globalRate = 0
  /\ nextSeq > 2

\* C2: session memoization.  Between two resetSession() calls at most one
\* evaluation is made on behalf of shouldSampleSession: a call on an
\* undecided session evaluates once and returns what it stored, a call on a
\* decided session returns the stored boolean without evaluating and without
\* drawing; only shouldSampleSession, forceSampleSession and resetSession
\* change the stored boolean.
C2_SessionMemoized ==
  /\ [](sessionEvals <= 1)
  /\ [][ /\ lastOp' = "shouldSampleSession" =>
              IF sessionSampled = None
                THEN /\ sessionEvals' = sessionEvals + 1
                     /\ sessionSampled' # None
                     /\ ret' = sessionSampled'
                ELSE /\ sessionEvals' = sessionEvals
                     /\ sessionSampled' = sessionSampled
                     /\ ret' = sessionSampled
                     /\ draws' = 0
         /\ lastOp' \notin {"shouldSampleSession", "forceSampleSession", "resetSession"} =>
              sessionSampled' = sessionSampled ]_vars

\* an unsampled decision is returned from the cache for a context that an
\* evaluation would now sample (an error context, after a rule was added)
C2_Witness ==
  /\ lastOp = "shouldSampleSession"
  /\ sessionEvals = 1
  /\ ret = Some(FALSE)
  /\ draws = 0
  /\ lastArg = Some(CtxError)
  /\ config.alwaysSampleErrors
  /\ shouldSample(CtxError, 999).decision.sampled
  /\ nextSeq > 2

\* the per-session sampling state
SessionState ==
  IF sessionSampled = None THEN "Unevaluated"
  ELSE IF sessionDecision # None /\ sessionDecision[1].reason = "forced" THEN "Forced"
  ELSE "Decided"

\* C34: the session state changes only from Unevaluated to Decided through
\* shouldSampleSession, to Forced through forceSampleSession and to
\* Unevaluated through resetSession; every other method (shouldSample,
\* addRule, removeRule, loadServerRules, setGlobalRate, getGlobalRate,
\* setAlwaysSampleErrors, recordEvent, getSessionDecision, getConfig) leaves
\* the cached boolean and decision as they were, and no step moves Forced
\* to Decided.
C34_SessionFrame ==
  [][/\ lastOp' = "shouldSampleSession" =>
          \/ SessionState = "Unevaluated" /\ SessionState' = "Decided"
          \/ sessionSampled' = sessionSampled /\ sessionDecision' = sessionDecision
     /\ lastOp' = "forceSampleSession" => SessionState' = "Forced"
     /\ lastOp' = "resetSession" => SessionState' = "Unevaluated"
     /\ lastOp' \notin {"shouldSampleSession", "forceSampleSession", "resetSession"} =>
          sessionSampled' = sessionSampled /\ sessionDecision' = sessionDecision
     /\ ~(SessionState = "Forced" /\ SessionState' = "Decided")
    ]_vars

\* a decided session outlives a change of the global rate
C34_Witness ==
  /\ lastOp = "setGlobalRate"
  /\ SessionState = "Decided"
  /\ sessionSampled = Some(FALSE)

\* what every decision is to satisfy
DecisionConsistent(decision) ==
  /\ decision.reason \in {"error", "slow_session", "forced"} =>
       decision.sampled /\ decision.appliedRate = 1000
  /\ (decision.matchedRule # None) <=> (decision.reason = "rule")

\* C36: the cached boolean and the cached decision are both absent, or both
\* present with decision.sampled equal to the boolean; every decision (cached
\* or returned by shouldSample) whose reason is 'error', 'slow_session' or
\* 'forced' has sampled = true and appliedRate = 1.0, and a decision names a
\* matched rule exactly when its reason is 'rule'.
C36_CacheConsistency ==
  /\ \/ sessionSampled = None /\ sessionDecision = None
     \/ /\ sessionSampled # None /\ sessionDecision # None
        /\ sessionDecision[1].sampled = sessionSampled[1]
  /\ sessionDecision # None => DecisionConsistent(sessionDecision[1])
  /\ lastOp = "shouldSample" => DecisionConsistent(ret[1])

C36_Witness ==
  /\ sessionSampled = Some(TRUE)
  /\ sessionDecision # None
  /\ sessionDecision[1].reason = "rule"
  /\ sessionDecision[1].matchedRule # None


(***************************************************************************)
(* SpecRules: evaluation under changing rules and configuration.            *)
(***************************************************************************)
InitRules ==
  /\ \E slow \in BOOLEAN, adaptive \in BOOLEAN :
       \E rs \in {<<RuleRouteA>>, <<RuleRouteA, RuleRouteAB>>, <<RuleMobile, RuleRouteA>>} :
         Construct(Config(300, rs, TRUE, slow, adaptive))
  /\ CollectorsIdle

NextRules ==
  \/ \E ctx \in {CtxPlain, CtxMobileAB, CtxSlow, CtxErrorSlow} : ShouldSample(ctx)
  \/ nextSeq <= MaxRuleInserts /\ \E rule \in {RuleMobile, RuleRouteAB} : AddRule(rule)
  \/ \E name \in {"route-a", "route-ab", "mobile"} : RemoveRule(name)
  \/ nextSeq + 1 <= MaxRuleInserts /\ LoadServerRules(<<ServerRuleMobileA, ServerRuleAll>>)
  \/ \E rate \in {-500, 1500} : SetGlobalRate(rate)
  \/ totalEvents < MaxSessionEvents /\ RecordEvent(FALSE)
  \/ \E enabled \in BOOLEAN : SetAlwaysSampleErrors(enabled)

SpecRules == InitRules /\ [][NextRules]_vars

(***************************************************************************)
(* Claims about evaluate (shouldSample), checked under SpecRules.  They     *)
(* speak of the state right after a shouldSample(ctx) call: lastArg is the  *)
(* context, ret the decision, draws the number of random draws; the call    *)
(* itself changes no field of the manager.                                  *)
(***************************************************************************)
Evaluated == lastOp = "shouldSample"
EvalCtx == lastArg[1]
EvalDecision == ret[1]

ErrorOverrideApplies == config.alwaysSampleErrors /\ EvalCtx.hasError
SlowOverrideApplies == config.alwaysSampleSlowSessions /\ EvalCtx.isSlowSession
NoOverrideApplies == ~ErrorOverrideApplies /\ ~SlowOverrideApplies

\* the registered rules whose predicate holds of the evaluated context
EvalMatching == {i \in 1..Len(rules) : RuleMatches(rules[i], EvalCtx)}
\* those of them that have the highest priority
EvalTop == {i \in EvalMatching : \A j \in EvalMatching : rules[i].priority >= rules[j].priority}

\* C3: override precedence.  With alwaysSampleErrors set and an error
\* context the decision is sampled at rate 1.0 with reason 'error'; otherwise
\* with alwaysSampleSlowSessions set and a slow context it is sampled at rate
\* 1.0 with reason 'slow_session'; rules and the global rate play no part,
\* and when both apply the reason is 'error'.
C3_OverridePrecedence ==
  Evaluated =>
    /\ ErrorOverrideApplies =>
         EvalDecision = [sampled |-> TRUE, matchedRule |-> <<>>,
                         appliedRate |-> 1000, reason |-> "error"]
    /\ (~ErrorOverrideApplies /\ SlowOverrideApplies) =>
         EvalDecision = [sampled |-> TRUE, matchedRule |-> <<>>,
                         appliedRate |-> 1000, reason |-> "slow_session"]

\* both overrides apply, a matching rule has rate 0 and the global rate is 0
C3_Witness ==
  /\ Evaluated
  /\ ErrorOverrideApplies
  /\ SlowOverrideApplies
  /\ EvalDecision.reason = "error"
  /\ \E i \in EvalMatching : rules[i].rate = 0
  /\ config.globalRate = 0

C5_StableTies ==
  (Evaluated /\ NoOverrideApplies /\ EvalMatching # {}) =>
    \E i \in EvalTop :
      /\ \A j \in EvalTop : rules[i].seq <= rules[j].seq
      /\ EvalDecision.matchedRule = <<rules[i].name>>
      /\ EvalDecision.appliedRate = rules[i].rate

\* two matching rules tie at the highest priority, differ in name and rate,
\* and the earlier one was applied, after a removal
C5_Witness ==
  /\ Evaluated
  /\ NoOverrideApplies
  /\ \E i \in EvalTop, j \in EvalTop :
       /\ rules[i].seq < rules[j].seq
       /\ rules[i].name # rules[j].name
       /\ rules[i].rate # rules[j].rate
       /\ EvalDecision.matchedRule = <<rules[i].name>>
       /\ EvalDecision.appliedRate = rules[i].rate
  /\ Len(rules) < nextSeq - 1

\* C6: global fall-through.  With no override and no matching rule the
\* decision has reason 'global', no matchedRule, and appliedRate equal to the
\* adaptive rate if adaptive sampling is enabled and to the configured global
\* rate otherwise.
C6_GlobalFallThrough ==
  (Evaluated /\ NoOverrideApplies /\ EvalMatching = {}) =>
    /\ EvalDecision.reason = "global"
    /\ EvalDecision.matchedRule = <<>>
    /\ EvalDecision.appliedRate =
         IF config.adaptiveSampling THEN adaptiveRate ELSE config.globalRate

\* adaptive sampling is on, the adaptive rate differs from the configured
\* rate, rules are registered but none matches
C6_Witness ==
  /\ Evaluated
  /\ NoOverrideApplies
  /\ EvalMatching = {}
  /\ rules # <<>>
  /\ config.adaptiveSampling
  /\ adaptiveRate # config.globalRate
  /\ EvalDecision.reason = "global"
  /\ EvalDecision.appliedRate = adaptiveRate

\* C7: rate boundaries.  A rule or global decision with rate >= 1 is sampled
\* and one with rate <= 0 is not, both without a random draw; a draw happens
\* only for a rate strictly between 0 and 1 (and never for an override).
C7_RateBoundaries ==
  Evaluated =>
    /\ EvalDecision.reason \in {"rule", "global"} =>
         /\ EvalDecision.appliedRate >= 1000 => (EvalDecision.sampled /\ draws = 0)
         /\ EvalDecision.appliedRate <= 0 => (~EvalDecision.sampled /\ draws = 0)
    /\ draws > 0 =>
         /\ EvalDecision.reason \in {"rule", "global"}
         /\ 0 < EvalDecision.appliedRate
         /\ EvalDecision.appliedRate < 1000

\* a rule of rate exactly 1.0 was applied
C7_Witness ==
  /\ Evaluated
  /\ EvalDecision.reason = "rule"
  /\ EvalDecision.appliedRate = 1000
  /\ EvalDecision.sampled
  /\ draws = 0

\* C11: rate clamping.  Every rate the engine holds lies in [0,1] (0..1000
\* in thousandths): the global rate, the rate of every registered rule
\* (whether it came from the constructor, addRule or loadServerRules), and
\* therefore the appliedRate of every decision shouldSample returns.
C11_RateClamping ==
  /\ config.globalRate \in 0..1000
  /\ \A i \in 1..Len(rules) : rules[i].rate \in 0..1000
  /\ lastOp = "shouldSample" => ret[1].appliedRate \in 0..1000

(***************************************************************************)
(* SpecMatch: rules built from conditions, by Nadi's constructor and by     *)
(* loadServerRules, evaluated against contexts with and without each field. *)
(***************************************************************************)
MaxCondRules == 1

InitMatch ==
  /\ \E rs \in {<<>>,
                <<SamplingRule(ConditionRule("config",
                     Conditions(Some(<<PathA>>), Some(<<"mobile">>), Some(<<"wifi">>))))>>} :
       Construct(Config(0, rs, TRUE, TRUE, FALSE))
  /\ CollectorsIdle

NextMatch ==
  \/ \E ctx \in MatchContexts : ShouldSample(ctx)
  \/ /\ nextSeq <= MaxCondRules
     /\ \E c \in ConditionPool : LoadServerRules(<<ConditionRule("server", c)>>)
  \/ \E name \in {"config", "server"} : RemoveRule(name)

SpecMatch == InitMatch /\ [][NextMatch]_vars

\* what the claim demands of one category: absent or empty never blocks;
\* otherwise the context has the field and the field satisfies the category
CategoryMet(category, lacks, satisfied) ==
  \/ category = None
  \/ Len(category[1]) = 0
  \/ ~lacks /\ satisfied

\* the conditions are met by ctx, where emptyLacks says whether a context
\* whose field is the empty string counts as lacking the field
ConditionsMet(conditions, ctx, emptyLacks) ==
  \/ conditions = None
  \/ LET c == conditions[1] IN
       /\ CategoryMet(c.routes,
                      ctx.route = None \/ (emptyLacks /\ ctx.route = Some(EmptyPath)),
                      \E i \in 1..Len(c.routes[1]) :
                         StartsWith(ctx.route[1], c.routes[1][i]))
       /\ CategoryMet(c.deviceTypes,
                      ctx.deviceType = None \/ (emptyLacks /\ ctx.deviceType = Some("")),
                      \E i \in 1..Len(c.deviceTypes[1]) :
                         c.deviceTypes[1][i] = ctx.deviceType[1])
       /\ CategoryMet(c.connectionTypes,
                      ctx.connectionType = None
                        \/ (emptyLacks /\ ctx.connectionType = Some("")),
                      \E i \in 1..Len(c.connectionTypes[1]) :
                         c.connectionTypes[1][i] = ctx.connectionType[1])

\* some registered rule is applied to the context of the last evaluation
RuleApplied == ret[1].reason = "rule"

\* C12 as stated: after shouldSample(ctx) for a context without error or slow
\* session, a rule is applied iff some registered rule's conditions are met
\* with AND semantics, where a context lacks a field only when the field is
\* undefined (an empty route starts with the empty prefix and matches it).
C12_AndSemantics ==
  lastOp = "shouldSample" =>
    (RuleApplied <=> \E i \in 1..Len(rules) :
                       ConditionsMet(rules[i].match.conditions, lastArg[1], FALSE))

\* C12 amended: the same, where a context lacks a field when the field is
\* undefined or the empty string; such a context matches no rule with that
\* category present.
C12_AndSemanticsNonEmpty ==
  lastOp = "shouldSample" =>
    (RuleApplied <=> \E i \in 1..Len(rules) :
                       ConditionsMet(rules[i].match.conditions, lastArg[1], TRUE))

\* a rule with all three categories present was applied to a context
C12_Witness ==
  /\ lastOp = "shouldSample"
  /\ RuleApplied
  /\ Len(rules) = 1
  /\ rules[1].match.conditions # None
  /\ LET c == rules[1].match.conditions[1] IN
       /\ c.routes # None /\ Len(c.routes[1]) > 0
       /\ c.deviceTypes # None /\ Len(c.deviceTypes[1]) > 0
       /\ c.connectionTypes # None /\ Len(c.connectionTypes[1]) > 0

(***************************************************************************)
(* SpecNadi: a Nadi instance after Nadi.init: errors reach the sampling     *)
(* engine through the ErrorTracker's onError callback.  Nadi evaluates the  *)
(* session with contexts whose hasError is false and never resets it.       *)
(***************************************************************************)
InitNadi ==
  /\ HostIdle
  /\ \E adaptive \in BOOLEAN : Construct(Config(300, <<>>, TRUE, TRUE, adaptive))
  /\ TracingConstruct(TracingConfig(FALSE, None, None), TRUE,
                      [i \in 1..TraceIdBytes |-> 171], [i \in 1..SpanIdBytes |-> 171])
  /\ \E autoBreadcrumbs \in BOOLEAN, autoErrors \in BOOLEAN :
       NadiInit(autoBreadcrumbs, autoErrors, 2)
  /\ PrivacyIdle

NextNadi ==
  \/ \E ctx \in {CtxPlain, CtxMobileAB, CtxSlow} : ShouldSampleSession(ctx)
  \/ GetSessionDecision
  \/ ForceSampleSession
  \/ Len(added) < MaxAdds /\ CaptureError
  \/ Len(added) < MaxAdds /\ CaptureMessage
  \/ Len(added) < MaxAdds /\ \E ignored \in BOOLEAN : ErrorEvent(ignored)
  \/ Len(added) < MaxAdds /\ UnhandledRejection
  \/ Stop

SpecNadi == InitNadi /\ [][NextNadi]_vars

\* the step is an entry point of the error tracker reporting an error: the
\* tracker is enabled and the error is not one the window listener ignores
ErrorReported ==
  /\ errorsEnabled
  /\ \/ lastOp' \in {"captureError", "captureMessage", "unhandledrejection"}
     \/ lastOp' = "error" /\ lastArg' = Some(FALSE)

TraceIdC == Repeat("c", 2 * TraceIdBytes)
SpanIdD == Repeat("d", 2 * SpanIdBytes)
StateV1 == <<"v", "=", "1">>
StateW2 == <<"w", "=", "2">>

\* contexts handed to adoptContext: what parseTraceparent returns for a
\* server-rendered header, with and without a trace state
AdoptContexts ==
  {TraceContext(TraceIdC, SpanIdD, smp, ts) :
     smp \in BOOLEAN, ts \in {None, Some(StateW2)}}

Header(version, tid, sid, flags) == version \o Dash \o tid \o Dash \o sid \o Dash \o flags

ParseInputs ==
  { <<>>,
    Header(<<"0", "0">>, TraceIdC, SpanIdD, <<"0", "1">>),
    Header(<<"0", "0">>, TraceIdC, SpanIdD, <<"0", "0">>),
    Header(<<"0", "0">>, TraceIdC, SpanIdD, <<"f", "e">>),
    Header(<<"0", "0">>, TraceIdC, SpanIdD, <<"0", "3">>),
    Header(<<"0", "0">>, TraceIdC, SpanIdD, <<"0", "g">>),
    Header(<<"0", "0">>, TraceIdC, SpanIdD, <<"0", "0", "1">>),
    Header(<<"0", "1">>, TraceIdC, SpanIdD, <<"0", "1">>),
    Header(<<"0", "0">>, <<"s", "h", "o", "r", "t">>, <<"i", "d">>, <<"0", "1">>),
    Header(<<"0", "0">>, Repeat("C", 2 * TraceIdBytes), SpanIdD, <<"0", "1">>),
    Header(<<"0", "0">>, TraceIdC, Repeat("D", 2 * SpanIdBytes), <<"0", "1">>),
    Header(<<"0", "0">>, Repeat("0", 2 * TraceIdBytes), SpanIdD, <<"0", "1">>),
    Header(<<"0", "0">>, TraceIdC, Repeat("0", 2 * SpanIdBytes), <<"0", "1">>),
    Header(<<"0", "0">>, TraceIdC, SpanIdD, <<"0", "1">>) \o Dash \o <<"x">>,
    <<"0", "0">> \o Dash \o TraceIdC \o Dash \o SpanIdD,
    Header(<<"0", "0">>, TraceIdC \o <<"c">>, SpanIdD, <<"0", "1">>) }

InitTracing ==
  /\ HostIdle
  /\ Construct(Config(300, <<>>, TRUE, TRUE, FALSE))
  /\ NadiInit(FALSE, FALSE, 50)
  /\ PrivacyIdle
  /\ \E crypto \in BOOLEAN, ts \in {None, Some(StateV1)} :
       \E e1 \in Entropy(TraceIdBytes, crypto), e2 \in Entropy(SpanIdBytes, crypto) :
         TracingConstruct(TracingConfig(TRUE, None, ts), crypto, e1, e2)

NextTracing ==
  \/ GenerateTraceId
  \/ GenerateSpanId
  \/ \E spanIdArg \in {None, Some(<<>>), Some(SpanIdD)} : CreateTraceparent(spanIdArg)
  \/ CreateTracestate
  \/ \E header \in ParseInputs : ParseTraceparent(header)
  \/ GetContext
  \/ \E smp \in BOOLEAN : SetSampled(smp)
  \/ \E ts \in {<<>>, StateV1} : SetTraceState(ts)
  \/ Reset
  \/ \E context \in AdoptContexts : AdoptContext(context)

SpecTracing == InitTracing /\ [][NextTracing]_vars

\* C14: header round-trip.  In every reachable state, the header
\* createTraceparent() returns for the current context parses back to a
\* context with the manager's current traceId, spanId and sampled.
C14_HeaderRoundTrip ==
  lastOp = "createTraceparent" /\ lastArg = Some(None) =>
    LET parsed == parseTraceparent(ret[1]) IN
      /\ parsed # None
      /\ parsed[1].traceId = traceId
      /\ parsed[1].spanId = spanId
      /\ parsed[1].sampled = traceSampled

AllZero(str) == \A i \in 1..Len(str) : str[i] = "0"

WellFormedId(str, n) ==
  /\ Len(str) = n
  /\ \A i \in 1..Len(str) : str[i] \in HexCharSet
  /\ ~AllZero(str)

\* C15: identifier generation.  generateTraceId() returns 32 and
\* generateSpanId() 16 lowercase hexadecimal characters, never all zeros,
\* for every outcome of either entropy source, and so reset() leaves the
\* manager with such a traceId and spanId.
C15_IdGeneration ==
  /\ lastOp = "generateTraceId" => WellFormedId(ret[1], 32)
  /\ lastOp = "generateSpanId" => WellFormedId(ret[1], 16)
  /\ lastOp = "reset" => WellFormedId(traceId, 32) /\ WellFormedId(spanId, 16)

\* the characters of str at positions from..to are lowercase hexadecimal
\* digits, not all of them "0" when nonZero is asked for
HexField(str, from, to, nonZero) ==
  /\ \A i \in from..to : str[i] \in HexCharSet
  /\ nonZero => \E i \in from..to : str[i] # "0"

\* "00-" 32 hex "-" 16 hex "-" 2 hex, the identifiers not all zeros
ValidTraceparent(h) ==
  /\ Len(h) = 55
  /\ h[1] = "0" /\ h[2] = "0"
  /\ h[3] = "-" /\ h[36] = "-" /\ h[53] = "-"
  /\ HexField(h, 4, 35, TRUE)
  /\ HexField(h, 37, 52, TRUE)
  /\ HexField(h, 54, 55, FALSE)

\* C16: header parsing is total and strict.  parseTraceparent returns a
\* context exactly for the inputs of the form 00-<32 hex>-<16 hex>-<2 hex>
\* with identifiers that are not all zeros; the context then carries the two
\* identifiers and sampled = bit 0 of the flags.  Every other input (empty,
\* too few or too many fields, version 01, short or uppercase identifiers,
\* all-zero identifiers, malformed flags) yields no context.
C16_ParseStrict ==
  lastOp = "parseTraceparent" =>
    LET h == lastArg[1] IN
      IF ValidTraceparent(h)
        THEN /\ ret # None
             /\ ret[1].traceId = SubSeq(h, 4, 35)
             /\ ret[1].spanId = SubSeq(h, 37, 52)
             /\ ret[1].sampled = (h[55] \in {"1", "3", "5", "7", "9", "b", "d", "f"})
        ELSE ret = None

\* an all-zero trace id has just been refused, although well-formed otherwise
C16_Witness ==
  /\ lastOp = "parseTraceparent"
  /\ ret = None
  /\ Len(lastArg[1]) = 55
  /\ SubSeq(lastArg[1], 4, 35) = Repeat("0", 32)
  /\ HexField(lastArg[1], 37, 52, TRUE)

C20_AdoptReplaces ==
  lastOp = "adoptContext" => getContext = lastArg[1]

\* the identifiers one call of the generators can return in this environment
GeneratedTraceIds == {generateTraceId(hasCrypto, e) : e \in Entropy(TraceIdBytes, hasCrypto)}
GeneratedSpanIds == {generateSpanId(hasCrypto, e) : e \in Entropy(SpanIdBytes, hasCrypto)}

\* C21: reset() regenerates only the identifiers.  After reset() traceId and
\* spanId are freshly generated values, while sampled, traceState and the
\* configuration (enabled flag, propagation targets) are what they were
\* before the call.
C21_ResetFrame ==
  [][lastOp' = "reset" =>
       /\ traceId' \in GeneratedTraceIds
       /\ spanId' \in GeneratedSpanIds
       /\ traceSampled' = traceSampled
       /\ traceState' = traceState
       /\ tracingConfig' = tracingConfig]_vars

\* reset() has run on a manager that had adopted an unsampled context with a
\* trace state: the identifiers are new, the rest survived
C21_Witness ==
  /\ lastOp = "reset"
  /\ traceId # TraceIdC
  /\ spanId # SpanIdD
  /\ ~traceSampled
  /\ traceState = Some(StateW2)

(***************************************************************************)
(* SpecPropagate: the allow-list of propagation targets, for managers with  *)
(* tracing on and off, over relative, absolute and unresolvable URLs.       *)
(***************************************************************************)
TargetPrefix == StringTarget(<<Scheme, "a", "/", "x">>)
TargetHost == StringTarget(<<"b">>)
TargetPattern == RegExpTarget(<<"/", "y">>)

TargetLists ==
  {None, Some(<<>>), Some(<<TargetPrefix>>), Some(<<TargetHost, TargetPattern>>)}

Urls ==
  { <<>>,
    <<"/", "x", "/", "1">>,
    <<"x">>,
    <<"z">>,
    <<Scheme, "b">>,
    <<Scheme, "B", "/", "z">>,
    <<Scheme, "c", "/", "y">>,
    <<Scheme, "c", "/", "z">>,
    <<Scheme>>,
    <<Scheme, " ", "b">> }

InitPropagate ==
  /\ HostIdle
  /\ Construct(Config(300, <<>>, TRUE, TRUE, FALSE))
  /\ NadiInit(FALSE, FALSE, 50)
  /\ PrivacyIdle
  /\ \E enabled \in BOOLEAN, urls \in TargetLists, ts \in {None, Some(StateV1)} :
       TracingConstruct(TracingConfig(enabled, urls, ts), TRUE,
                        [i \in 1..TraceIdBytes |-> 171], [i \in 1..SpanIdBytes |-> 171])

NextPropagate ==
  \/ \E url \in Urls : ShouldPropagate(url)
  \/ \E url \in Urls : GetTraceHeaders(url)
  \/ \E smp \in BOOLEAN : SetSampled(smp)
  \/ SetTraceState(<<>>)
  \/ \E context \in AdoptContexts : AdoptContext(context)

SpecPropagate == InitPropagate /\ [][NextPropagate]_vars

\* the url is eligible as the claim words it: tracing is on, there are
\* targets, the url resolves against the origin, and the resolved URL starts
\* with a string target, or has a string target as its hostname, or is
\* matched by a pattern target
Eligible(url) ==
  /\ tracingConfig.enabled
  /\ tracingConfig.propagateTraceUrls # None
  /\ Len(tracingConfig.propagateTraceUrls[1]) > 0
  /\ ResolveUrl(url) # None
  /\ LET resolved == ResolveUrl(url)[1]
         targets == tracingConfig.propagateTraceUrls[1]
     IN \E i \in 1..Len(targets) :
          \/ /\ targets[i].kind = "string"
             /\ \/ StartsWith(resolved.href, targets[i].value)
                \/ resolved.hostname = targets[i].value
          \/ /\ targets[i].kind = "regexp"
             /\ Contains(resolved.href, targets[i].value)

InitAdaptive ==
  /\ Construct(Config(300, <<>>, TRUE, TRUE, TRUE))
  /\ CollectorsIdle

NextAdaptive ==
  \/ /\ totalEvents < MaxEvents
     /\ \E hasError \in BOOLEAN :
          /\ hasError => errorCount < MaxErrors
          /\ RecordEvent(hasError)
  \/ \E rate \in {100, 600} : SetGlobalRate(rate)
  \/ GetGlobalRate
  \/ ShouldSample(CtxPlain)

SpecAdaptive == InitAdaptive /\ [][NextAdaptive]_vars

\* C8: adaptive warm-up.  With adaptive sampling enabled and fewer than 100
\* events recorded (a fresh manager and the state after setGlobalRate
\* included), the effective rate returned by getGlobalRate() and applied by
\* the global step of shouldSample equals the configured global rate.
C8_AdaptiveWarmUp ==
  (config.adaptiveSampling /\ totalEvents < 100) =>
    /\ lastOp = "getGlobalRate" => ret = <<config.globalRate>>
    /\ (lastOp = "shouldSample" /\ ret[1].reason = "global") =>
         ret[1].appliedRate = config.globalRate

\* the band of the observed error rate errorCount / totalEvents
C9_Band ==
  IF errorCount * 100 > 5 * totalEvents THEN 1000
  ELSE IF errorCount * 100 > totalEvents THEN 500
  ELSE IF errorCount * 1000 > totalEvents THEN 250
  ELSE 100

\* C9: adaptive banding.  With adaptive sampling enabled, right after a
\* recordEvent call that leaves totalEvents >= 100 the effective rate is
\* max(band, globalRate), the comparisons being strict: exactly 5 errors in
\* 100 events give the band 0.5.
C9_AdaptiveBanding ==
  (lastOp = "recordEvent" /\ config.adaptiveSampling /\ totalEvents >= 100) =>
    /\ getGlobalRate = Max(C9_Band, config.globalRate)
    /\ (totalEvents = 100 /\ errorCount = 5) => C9_Band = 500

\* the 100th event was recorded with exactly 5 errors and a global rate below 0.5
C9_Witness ==
  /\ lastOp = "recordEvent"
  /\ config.adaptiveSampling
  /\ totalEvents = 100
  /\ errorCount = 5
  /\ config.globalRate < 500
  /\ getGlobalRate = 500

\* C10: adaptive floor.  With adaptive sampling enabled the effective rate is
\* never below the currently configured global rate.
C10_AdaptiveFloor ==
  config.adaptiveSampling => getGlobalRate >= config.globalRate

(***************************************************************************)
(* SpecPrivacy: a PrivacyManager under masking and detection of texts and   *)
(* every change of its configuration and registry.  Every pattern carries   *)
(* the g flag, as the built-ins do and the documentation requires of        *)
(* custom ones.                                                             *)
(***************************************************************************)
TextContact ==
  <<"C", "o", "n", "t", "a", "c", "t", " ", "j", "o", "h", "n", "@", "e",
    "x", "a", "m", "p", "l", "e", ".", "c", "o", "m">>

TextMixed ==
  <<"a", "@", "b", ".", "c", "c", " ", "1", "2", "3", "-", "4", "5", "-",
    "6", "7", "8", "9", " ", "x", "@", "y", ".", "z", "z", "!">>

TextCodes ==
  <<"i", "d", " ", "E", "1", "2", " ", "E", "1", "2", "3", " ", "E", "1",
    "2", "3", "4", ".">>

TextPlain ==
  <<"h", "e", "l", "l", "o">>

Texts == {<<>>, TextPlain, TextContact, TextMixed, TextCodes}

\* the custom pattern /E\d{2,4}/g
CodePattern == RegExp(<<Item({"E"}, 1, 1), Item(DigitSet, 2, 4)>>, FALSE, FALSE)

\* a pattern object as a caller hands it over: fresh, or used before
PatternObjects == {[pattern |-> CodePattern, lastIndex |-> 0],
                   [pattern |-> CodePattern, lastIndex |-> 3]}

PatternNames == {"ssn", "code"}

PrivacyUpdates ==
  {PartialPrivacyConfig(None, None, Some(strategy), None, None) :
     strategy \in {"redact", "partial", "hash"}}
  \cup {PartialPrivacyConfig(Some(enabled), None, None, None, None) : enabled \in BOOLEAN}
  \cup {PartialPrivacyConfig(None, None, None, None,
                             Some(<<Entry("email", CodePattern, 0),
                                    Entry("code", CodePattern, 0)>>))}

InitPrivacy ==
  /\ HostIdle
  /\ Construct(Config(300, <<>>, TRUE, TRUE, FALSE))
  /\ TracingConstruct(TracingConfig(FALSE, None, None), TRUE,
                      [i \in 1..TraceIdBytes |-> 171], [i \in 1..SpanIdBytes |-> 171])
  /\ NadiInit(FALSE, FALSE, 50)
  /\ \E partial \in {EmptyPrivacyConfig,
                     PartialPrivacyConfig(None, None, Some("partial"), None,
                                          Some(<<Entry("code", CodePattern, 0)>>))} :
       PrivacyConstruct(partial)

NextPrivacy ==
  \/ \E text \in Texts : MaskPII(text)
  \/ \E text \in Texts : DetectPII(text)
  \/ \E partial \in PrivacyUpdates : UpdateConfig(partial)
  \/ \E name \in PatternNames, pattern \in PatternObjects : AddPattern(name, pattern)
  \/ \E name \in PatternNames : RemovePattern(name)

SpecPrivacy == InitPrivacy /\ [][NextPrivacy]_vars

\* the matches of a pattern in a text, left to right, as [start, end)
RECURSIVE Spans(_, _, _)
Spans(pattern, str, from) ==
  LET m == Exec(pattern, str, from) IN
    IF m = None THEN {} ELSE {m[1]} \cup Spans(pattern, str, m[1].end)

\* the matches of every registered pattern in a text
RegisteredSpans(registry, text) ==
  UNION {Spans(registry[k].pattern, text, 1) : k \in 1..Len(registry)}

\* what a match is to become: the placeholder under "redact"; under
\* "partial" its first character, mask characters and its last character
\* when it is longer than four characters, else the placeholder
Masked(strategy, match) ==
  IF strategy = "partial" /\ Len(match) > 4
    THEN [i \in 1..Len(match) |-> IF i = 1 \/ i = Len(match) THEN match[i] ELSE "*"]
    ELSE REDACTED

\* the text from position i on with every span replaced and the rest kept
RECURSIVE Rewritten(_, _, _, _)
Rewritten(text, spans, i, strategy) ==
  IF i > Len(text) THEN <<>>
  ELSE IF \E sp \in spans : sp.start = i
    THEN LET sp == CHOOSE sp \in spans : sp.start = i IN
           Masked(strategy, SubSeq(text, sp.start, sp.end - 1))
             \o Rewritten(text, spans, sp.end, strategy)
    ELSE <<text[i]>> \o Rewritten(text, spans, i + 1, strategy)

\* the call that ran last is maskPII under the strategy, with masking on
MaskedUnder(strategy) ==
  /\ lastOp = "maskPII"
  /\ privacyConfig.enabled
  /\ privacyConfig.maskingStrategy = strategy
  /\ ~ret[1].threw

Lookup(registry, name) ==
  IF \E i \in 1..Len(registry) : registry[i].name = name
    THEN Some((CHOOSE e \in {registry[i] : i \in 1..Len(registry)} : e.name = name).pattern)
    ELSE None

\* the names of the model
KnownNames == {"email", "ssn"} \cup PatternNames

\* the registered names with at least one match in the text
MatchingNames(registry, text) ==
  {registry[k].name : k \in {j \in 1..Len(registry) : Spans(registry[j].pattern, text, 1) # {}}}

\* the matches of the registered patterns from entry k on, counted
RECURSIVE CountFrom(_, _, _)
CountFrom(registry, text, k) ==
  IF k > Len(registry) THEN 0
  ELSE Cardinality(Spans(registry[k].pattern, text, 1)) + CountFrom(registry, text, k + 1)

\* the custom patterns of the partial configuration updateConfig was called with
CustomOf(partial) ==
  IF partial.customPIIPatterns = None THEN <<>> ELSE partial.customPIIPatterns[1]

\* C27: the registry starts as the built-ins; addPattern(n, p) registers p
\* under n (replacing the pattern n had), updateConfig does the same for each
\* custom pattern given, removePattern(n) removes n, and every other name
\* keeps its pattern; maskPII and detectPII apply exactly the patterns
\* registered at the call: maskPII masks the matches of those and nothing
\* else, detectPII reports the names of those that match.
C27_PatternRegistry ==
  /\ Lookup(patterns, "email") = Some(EmailPattern)
  /\ Lookup(patterns, "ssn") = Some(SsnPattern)
  /\ [][/\ lastOp' = "addPattern" =>
             \A name \in KnownNames :
               Lookup(patterns', name) =
                 IF name = lastArg'[1].name THEN Some(lastArg'[1].pattern.pattern)
                 ELSE Lookup(patterns, name)
        /\ lastOp' = "removePattern" =>
             \A name \in KnownNames :
               Lookup(patterns', name) =
                 IF name = lastArg'[1] THEN None ELSE Lookup(patterns, name)
        /\ lastOp' = "updateConfig" =>
             \A name \in KnownNames :
               Lookup(patterns', name) =
                 IF Lookup(CustomOf(lastArg'[1]), name) # None
                   THEN Lookup(CustomOf(lastArg'[1]), name)
                   ELSE Lookup(patterns, name)
        /\ lastOp' \in {"maskPII", "detectPII"} =>
             \A name \in KnownNames : Lookup(patterns', name) = Lookup(patterns, name)
        /\ (lastOp' = "maskPII" /\ privacyConfig.enabled
              /\ privacyConfig.maskingStrategy \in {"redact", "partial"}) =>
             ret'[1].value = Rewritten(lastArg'[1], RegisteredSpans(patterns, lastArg'[1]), 1,
                                       privacyConfig.maskingStrategy)
        /\ lastOp' = "detectPII" =>
             {ret'[1].value.types[i] : i \in 1..Len(ret'[1].value.types)}
               = MatchingNames(patterns, lastArg'[1])
       ]_vars

\* "ssn" was replaced by the custom pattern and "code" is not registered:
\* the codes of the text are reported under "ssn"
C27_Witness ==
  /\ lastOp = "detectPII"
  /\ lastArg = Some(TextCodes)
  /\ Lookup(patterns, "ssn") = Some(CodePattern)
  /\ Lookup(patterns, "code") = None
  /\ ret[1].value = DetectionResult(TRUE, <<"ssn">>, 3)

KeyPassword == <<"p", "a", "s", "s", "w", "o", "r", "d">>
MailAbc == <<"a", "b", "c", "@", "x", ".", "c", "o", "m">>
MailAb == <<"a", "@", "b", ".", "c", "c">>

\* { password: "abc@x.com" }
ObjectLogin == ObjectValue(<<Property(KeyPassword, StringValue(MailAbc))>>)

\* { user: { Email: "a@b.cc", myPassword: 5, note: null },
\*   list: [{ Token: "t", n: 1 }, "a@b.cc", null] }
ObjectNested ==
  ObjectValue(<<
    Property(<<"u", "s", "e", "r">>,
             ObjectValue(<<Property(<<"E", "m", "a", "i", "l">>, StringValue(MailAb)),
                           Property(<<"m", "y", "P", "a", "s", "s", "w", "o", "r", "d">>, NumberValue(5)),
                           Property(<<"n", "o", "t", "e">>, NullValue)>>)),
    Property(<<"l", "i", "s", "t">>,
             ArrayValue(<<ObjectValue(<<Property(<<"T", "o", "k", "e", "n">>, StringValue(<<"t">>)),
                                        Property(<<"n">>, NumberValue(1))>>),
                          StringValue(MailAb),
                          NullValue>>))>>)

\* { password: null, cardHolder: ["a@b.cc"], auth: { n: 1 } }
ObjectNulls ==
  ObjectValue(<<Property(KeyPassword, NullValue),
                Property(<<"c", "a", "r", "d", "H", "o", "l", "d", "e", "r">>, ArrayValue(<<StringValue(MailAb)>>)),
                Property(<<"a", "u", "t", "h">>, ObjectValue(<<Property(<<"n">>, NumberValue(1))>>))>>)

\* [{ pwd: { a: 1 } }, "abc@x.com"]
ArrayTop ==
  ArrayValue(<<ObjectValue(<<Property(<<"p", "w", "d">>,
                                      ObjectValue(<<Property(<<"a">>, NumberValue(1))>>))>>),
               StringValue(MailAbc)>>)

Objects == {ObjectLogin, ObjectNested, ObjectNulls, ArrayTop}

FieldLists == {<<>>, << <<"c", "a", "r", "d">> >>}

UrlToken ==
  <<Scheme, "a", ".", "c", "o", "m", "?", "t", "o", "k", "e", "n", "=", "x",
    "y", "z", "&", "q", "=", "1">>

UrlTwice ==
  <<Scheme, "a", "/", "r", "?", "x", "=", "1", "&", "t", "o", "k", "e", "n",
    "=", "z", "&", "t", "o", "k", "e", "n", "=", "y", "#", "h">>

UrlMailPath ==
  <<"/", "r", "/", "a", "@", "b", ".", "c", "c", "?", "q", "=", "1">>

UrlPlain ==
  <<Scheme, "a", "/", "p", "?", "q", "=", "1">>

UrlMailHash ==
  <<Scheme, "a", "/", "p", "?", "s", "e", "s", "s", "i", "o", "n", "=", "s",
    "1", "&", "q", "=", "1", "#", "a", "@", "b", ".", "c", "c">>

UrlNoHost ==
  <<Scheme>>

UrlBadHost ==
  <<Scheme, " ", "1", "2", "3", "-", "4", "5", "-", "6", "7", "8", "9">>

ScrubUrls == {<<>>, UrlToken, UrlTwice, UrlMailPath, UrlPlain, UrlMailHash, UrlNoHost, UrlBadHost}

ObjectUpdates ==
  {PartialPrivacyConfig(None, None, Some(strategy), None, None) :
     strategy \in {"redact", "partial", "hash"}}
  \cup {PartialPrivacyConfig(Some(enabled), None, None, None, None) : enabled \in BOOLEAN}
  \cup {PartialPrivacyConfig(None, Some(<< <<"t", "o", "k", "e", "n">> >>), None, None, None),
        PartialPrivacyConfig(None, None, None, Some(<< <<"P", "a", "s", "s">> >>), None)}

InitObjects ==
  /\ HostIdle
  /\ Construct(Config(300, <<>>, TRUE, TRUE, FALSE))
  /\ TracingConstruct(TracingConfig(FALSE, None, None), TRUE,
                      [i \in 1..TraceIdBytes |-> 171], [i \in 1..SpanIdBytes |-> 171])
  /\ NadiInit(FALSE, FALSE, 50)
  /\ \E partial \in {EmptyPrivacyConfig,
                     PartialPrivacyConfig(None, None, Some("partial"), None, None)} :
       PrivacyConstruct(partial)

\* { message: "Contact john@example.com", data: { password: "abc@x.com" } },
\* { message: "hello" }, { data: { user: ..., list: ... } }
Crumbs == {Crumb(Some(TextContact), Some(ObjectLogin)),
           Crumb(Some(TextPlain), None),
           Crumb(None, Some(ObjectNested))}

NextObjects ==
  \/ \E obj \in Objects, additionalFields \in FieldLists : MaskObject(obj, additionalFields)
  \/ \E url \in ScrubUrls : ScrubUrl(url)
  \/ \E partial \in ObjectUpdates : UpdateConfig(partial)
  \/ \E text \in {TextContact, TextPlain} : MaskPII(text)
  \/ \E breadcrumb \in Crumbs : MaskBreadcrumb(breadcrumb)

SpecObjects == InitObjects /\ [][NextObjects]_vars

\* the key, compared case-insensitively, equals or contains a field name
SensitiveKey(key, fields) ==
  \E i \in 1..Len(fields) :
    \/ LowerCase(key) = LowerCase(fields[i])
    \/ \E from \in 1..Len(key), to \in 1..Len(key) :
         LowerCase(SubSeq(key, from, to)) = LowerCase(fields[i])

\* the names maskObject was called with: the configured ones and the extra ones
FieldsInForce ==
  (IF privacyConfig.sensitiveFields = None THEN <<>> ELSE privacyConfig.sensitiveFields[1])
    \o lastArg[1].additionalFields

\* out is what masking is to make of in: under a sensitive key the
\* placeholder (for a null value too when nullsToo holds, else null stays),
\* elsewhere strings through maskPII, sequences and mappings entry by entry,
\* other values as they are
RECURSIVE MaskedAs(_, _, _)
MaskedAs(in, out, nullsToo) ==
  IF in.kind = "object"
    THEN /\ out.kind = "object"
         /\ Len(out.value) = Len(in.value)
         /\ \A i \in 1..Len(in.value) :
              /\ out.value[i].key = in.value[i].key
              /\ IF /\ SensitiveKey(in.value[i].key, FieldsInForce)
                    /\ (nullsToo \/ in.value[i].value.kind # "null")
                   THEN out.value[i].value = StringValue(REDACTED)
                   ELSE MaskedAs(in.value[i].value, out.value[i].value, nullsToo)
  ELSE IF in.kind = "array"
    THEN /\ out.kind = "array"
         /\ Len(out.value) = Len(in.value)
         /\ \A i \in 1..Len(in.value) : MaskedAs(in.value[i], out.value[i], nullsToo)
  ELSE IF in.kind = "string"
    THEN out = StringValue(maskPIIIn(privacyConfig, patterns, in.value).value)
  ELSE out = in

\* the call that ran last is maskObject, with masking on
ObjectMasked ==
  /\ lastOp = "maskObject"
  /\ privacyConfig.enabled
  /\ ~ret[1].threw

OtherParams(params, sensitiveUrlParams) ==
  SelectSeq(params, LAMBDA param : ~Includes(sensitiveUrlParams, param.name))

\* the names of the pairs of a query, in order
ParamNames(query) == [i \in 1..Len(SearchParams(query)) |-> SearchParams(query)[i].name]

\* the call that ran last is scrubUrl on an address that parses, with
\* scrubbing on
UrlScrubbed ==
  /\ lastOp = "scrubUrl"
  /\ privacyConfig.enabled
  /\ lastArg[1] # <<>>
  /\ ParseUrl(lastArg[1]) # None
  /\ ~ret[1].threw

MaskInput == IF lastOp = "maskObject" THEN lastArg[1].obj ELSE lastArg[1]

MaskingOps == {"maskPII", "maskObject", "scrubUrl", "maskBreadcrumb"}

\* C40: with enabled false maskPII, maskObject, scrubUrl and maskBreadcrumb
\* return their input as given; updateConfig({enabled}) sets the flag, and
\* the next call goes by the flag as it then is: disabled it returns the
\* input, enabled again it masks.
C40_DisabledIsIdentity ==
  [][/\ (lastOp' = "updateConfig" /\ lastArg'[1].enabled # None) =>
          privacyConfig'.enabled = lastArg'[1].enabled[1]
     /\ (lastOp' \in MaskingOps /\ ~privacyConfig.enabled) =>
          ret' = Some([threw |-> FALSE, value |-> MaskInput'])
     /\ (lastOp' = "maskPII" /\ privacyConfig.enabled /\ lastArg' = Some(TextContact)) =>
          ret'[1].value # TextContact
    ]_vars

C40_Witness ==
  /\ lastOp = "maskBreadcrumb"
  /\ ~privacyConfig.enabled
  /\ lastArg = Some(Crumb(Some(TextContact), Some(ObjectLogin)))
  /\ ret = Some(Returns(Crumb(Some(TextContact), Some(ObjectLogin))))

(***************************************************************************)
(* SpecFaulty: a PrivacyManager to which a pattern may be added whose use   *)
(* throws, such as a frozen RegExp carrying the g flag: replace and         *)
(* detectPII assign its lastIndex, and the assignment throws a TypeError.   *)
(***************************************************************************)
FaultyObjects == {[pattern |-> FaultyRegExp, lastIndex |-> 0],
                  [pattern |-> CodePattern, lastIndex |-> 0]}

FaultyNames == {"email", "code"}

InitFaulty ==
  /\ HostIdle
  /\ Construct(Config(300, <<>>, TRUE, TRUE, FALSE))
  /\ TracingConstruct(TracingConfig(FALSE, None, None), TRUE,
                      [i \in 1..TraceIdBytes |-> 171], [i \in 1..SpanIdBytes |-> 171])
  /\ NadiInit(FALSE, FALSE, 50)
  /\ PrivacyConstruct(EmptyPrivacyConfig)

NextFaulty ==
  \/ \E name \in FaultyNames, pattern \in FaultyObjects : AddPattern(name, pattern)
  \/ \E name \in FaultyNames : RemovePattern(name)
  \/ \E enabled \in BOOLEAN :
       UpdateConfig(PartialPrivacyConfig(Some(enabled), None, None, None, None))
  \/ \E text \in {TextPlain, TextMixed} : MaskPII(text)
  \/ \E text \in {TextPlain, TextMixed} : DetectPII(text)
  \/ \E url \in {UrlPlain, UrlMailPath, UrlBadHost} : ScrubUrl(url)
  \/ MaskObject(ObjectLogin, <<>>)

SpecFaulty == InitFaulty /\ [][NextFaulty]_vars

\* the registered patterns whose use does not throw
Sound(registry) == SelectSeq(registry, LAMBDA entry : ~entry.pattern.faulty)

\* C26: scrubUrl never throws: it returns a string for every input, and for
\* an input that does not parse as a URL the result is maskPII of the
\* whole input.
C26_ScrubUrlNeverThrows ==
  lastOp = "scrubUrl" =>
    /\ ~ret[1].threw
    /\ ParseUrl(lastArg[1]) = None =>
         ret[1].value = maskPIIIn(privacyConfig, Sound(patterns), lastArg[1]).value

\* C28: a registered pattern whose application fails does not abort
\* maskPII: the call returns, no exception reaches the caller, and the
\* result is the text with the other registered patterns applied.
C28_FaultIsolation ==
  lastOp = "maskPII" =>
    /\ ~ret[1].threw
    /\ ret[1].value = maskPIIIn(privacyConfig, Sound(patterns), lastArg[1]).value

(***************************************************************************)
(* SpecBreadcrumbs: a BreadcrumbCollector built with a number (no PII mask  *)
(* configured) under start, stop, add, getAll and clear.  A breadcrumb is   *)
(* its type and message; added is the history since the last clear.         *)
(***************************************************************************)
\* a method of the BreadcrumbCollector invoked directly: nothing else changes
BreadcrumbCall(op, arg, r) ==
  /\ Returned(op, arg, r, 0)
  /\ UNCHANGED samplingVars
  /\ UNCHANGED tracingVars
  /\ UNCHANGED privacyVars
  /\ UNCHANGED errorsEnabled
  /\ UNCHANGED hostVars

\* new BreadcrumbCollector(maxBreadcrumbs)
BreadcrumbConstruct(maxBreadcrumbs) ==
  /\ breadcrumbs = [enabled |-> FALSE, maxBreadcrumbs |-> maxBreadcrumbs, breadcrumbs |-> <<>>]
  /\ added = <<>>

BreadcrumbStart ==
  /\ breadcrumbs' = [breadcrumbs EXCEPT !.enabled = TRUE]
  /\ BreadcrumbCall("start", None, None)
  /\ UNCHANGED added

BreadcrumbStop ==
  /\ breadcrumbs' = [breadcrumbs EXCEPT !.enabled = FALSE]
  /\ BreadcrumbCall("stop", None, None)
  /\ UNCHANGED added

BreadcrumbAdd(type, message) ==
  /\ breadcrumbs' = breadcrumbsAdd(breadcrumbs, type, message)
  /\ added' = Recorded(breadcrumbs, type, message)
  /\ BreadcrumbCall("add", Some([type |-> type, message |-> message]), None)

BreadcrumbGetAll ==
  /\ BreadcrumbCall("getAll", None, Some(breadcrumbs.breadcrumbs))
  /\ UNCHANGED <<breadcrumbs, added>>

BreadcrumbClear ==
  /\ breadcrumbs' = [breadcrumbs EXCEPT !.breadcrumbs = <<>>]
  /\ added' = <<>>
  /\ BreadcrumbCall("clear", None, None)

InitBreadcrumbs ==
  /\ HostIdle
  /\ Construct(Config(300, <<>>, TRUE, TRUE, FALSE))
  /\ TracingConstruct(TracingConfig(FALSE, None, None), TRUE,
                      [i \in 1..TraceIdBytes |-> 171], [i \in 1..SpanIdBytes |-> 171])
  /\ errorsEnabled = FALSE
  /\ PrivacyIdle
  /\ \E maxBreadcrumbs \in {0, 1, 2} : BreadcrumbConstruct(maxBreadcrumbs)

NextBreadcrumbs ==
  \/ BreadcrumbStart
  \/ BreadcrumbStop
  \/ Len(added) < MaxAdds /\ \E message \in {"first", "second"} : BreadcrumbAdd("custom", message)
  \/ BreadcrumbGetAll
  \/ BreadcrumbClear

SpecBreadcrumbs == InitBreadcrumbs /\ [][NextBreadcrumbs]_vars

\* the last n elements of a sequence (all of it when it is shorter)
LastOf(seq, n) == SubSeq(seq, Len(seq) - Min(n, Len(seq)) + 1, Len(seq))

\* C30: the collector never stores more than maxBreadcrumbs breadcrumbs;
\* what it stores, and what getAll returns, is the most recently added
\* breadcrumbs (since the last clear) in the order they were added: at the
\* limit the oldest one is the one that went.
C30_BoundedBuffer ==
  /\ Len(breadcrumbs.breadcrumbs) <= breadcrumbs.maxBreadcrumbs
  /\ breadcrumbs.breadcrumbs = LastOf(added, breadcrumbs.maxBreadcrumbs)
  /\ lastOp = "getAll" => ret = Some(LastOf(added, breadcrumbs.maxBreadcrumbs))

C30_Witness ==
  /\ lastOp = "getAll"
  /\ breadcrumbs.maxBreadcrumbs = 2
  /\ added = <<[type |-> "custom", message |-> "first"],
               [type |-> "custom", message |-> "second"],
               [type |-> "custom", message |-> "first"]>>
  /\ ret = Some(<<[type |-> "custom", message |-> "second"],
                  [type |-> "custom", message |-> "first"]>>)

(***************************************************************************)
(* SpecCards: isValidCreditCard on candidates of 12 to 20 digits, plain,    *)
(* grouped by dashes or spaces, or carrying a letter.                       *)
(***************************************************************************)
DigitChar(n) == AsciiChars[17 + n]

\* length - 2 zeros followed by the digits a and b
Candidate(length, a, b) ==
  [i \in 1..length |-> IF i = length - 1 THEN DigitChar(a)
                       ELSE IF i = length THEN DigitChar(b) ELSE "0"]

\* the 16-digit candidate in groups of four
Grouped(sep, a, b) ==
  [i \in 1..19 |-> IF i \in {5, 10, 15} THEN sep
                   ELSE IF i = 18 THEN DigitChar(a)
                   ELSE IF i = 19 THEN DigitChar(b) ELSE "0"]

CardCandidates ==
  {Candidate(length, a, b) : length \in {12, 13, 16, 19, 20}, a \in {1, 5, 9}, b \in 0..9}
  \cup {Grouped(sep, a, b) : sep \in {"-", " ", "x"}, a \in {1, 5, 9}, b \in 0..9}

InitCards ==
  /\ Construct(Config(300, <<>>, TRUE, TRUE, FALSE))
  /\ CollectorsIdle

NextCards == \E number \in CardCandidates : IsValidCreditCard(number)

SpecCards == InitCards /\ [][NextCards]_vars

\* the digit at place k counted from the rightmost (place 1), doubled at
\* every second place, with 9 subtracted from a doubled value above 9
LuhnTerm(digits, k) ==
  LET digit == DigitValue(digits[Len(digits) - k + 1]) IN
    IF k % 2 = 1 THEN digit
    ELSE IF 2 * digit > 9 THEN 2 * digit - 9 ELSE 2 * digit

RECURSIVE LuhnChecksum(_, _)
LuhnChecksum(digits, k) ==
  IF k > Len(digits) THEN 0 ELSE LuhnTerm(digits, k) + LuhnChecksum(digits, k + 1)

NadiConfig(url, apiKey, appKey, autoSession, autoErrors, autoBreadcrumbs, maxBreadcrumbs) ==
  [url |-> url, apiKey |-> apiKey, appKey |-> appKey, autoSession |-> autoSession,
   autoErrors |-> autoErrors, autoBreadcrumbs |-> autoBreadcrumbs,
   maxBreadcrumbs |-> maxBreadcrumbs]

UndefinedText == <<"u", "n", "d", "e", "f", "i", "n", "e", "d">>

\* !value || value.trim() === ''
Missing(value) == ~Truthy(value) \/ \A i \in 1..Len(value[1]) : value[1][i] = " "

\* Nadi.validateConfig(config) returns without throwing
validConfig(cfg) ==
  /\ ~Missing(cfg.url)
  /\ ~Missing(cfg.apiKey)
  /\ ~Missing(cfg.appKey)
  /\ cfg.appKey[1] # UndefinedText

\* config.option ?? true
OrTrue(option) == IF option = None THEN TRUE ELSE option[1]

\* Nadi.init(config), where exists stands for the test of Nadi.instance
InitCall(cfg, exists) ==
  /\ IF exists
       THEN /\ Returned("init", Some(cfg), Some(Returns(instance[1])), 0)
            /\ UNCHANGED <<instanceVars, nadiVars>>
       ELSE IF ~validConfig(cfg)
         THEN /\ Returned("init", Some(cfg), Some(Throws), 0)
              /\ UNCHANGED <<instanceVars, nadiVars>>
         ELSE /\ instance' = Some(created + 1)
              /\ created' = created + 1
              /\ initialized' = TRUE
              /\ breadcrumbs' = [enabled |-> OrTrue(cfg.autoBreadcrumbs),
                                 maxBreadcrumbs |-> IF cfg.maxBreadcrumbs = 0 THEN 50
                                                    ELSE cfg.maxBreadcrumbs,
                                 breadcrumbs |-> <<>>]
              /\ added' = <<>>
              /\ IF OrTrue(cfg.autoSession)
                   THEN /\ starting' = Some([autoErrors |-> OrTrue(cfg.autoErrors)])
                        /\ errorsEnabled' = FALSE
                   ELSE /\ starting' = None
                        /\ errorsEnabled' = OrTrue(cfg.autoErrors)
              /\ Returned("init", Some(cfg), Some(Returns(created + 1)), 0)
  /\ UNCHANGED <<samplingVars, tracingVars, privacyVars, aloneVars>>

\* faulty variant: Nadi.instance is not looked at
StaticInit_Unchecked(cfg) == InitCall(cfg, FALSE)

\* static init(config)
StaticInit(cfg) == InitCall(cfg, instance # None)

\* static getInstance()
GetInstance ==
  /\ Returned("getInstance", None, Some(instance), 0)
  /\ UNCHANGED <<instanceVars, nadiVars, samplingVars, tracingVars, privacyVars, aloneVars>>

\* start() goes on after session.start() has settled: the error tracker
\* starts if the configuration asks for it
StartResumes ==
  /\ starting # None
  /\ errorsEnabled' = (errorsEnabled \/ starting[1].autoErrors)
  /\ starting' = None
  /\ Returned("start", None, None, 0)
  /\ UNCHANGED <<instance, created, initialized, breadcrumbs, added>>
  /\ UNCHANGED <<samplingVars, tracingVars, privacyVars, aloneVars>>

\* session.start() rejects (createHeaders throws): the rest of start() never runs
StartRejected ==
  /\ starting # None
  /\ starting' = None
  /\ Returned("start", None, Some(Throws), 0)
  /\ UNCHANGED <<instance, created, initialized, errorsEnabled, breadcrumbs, added>>
  /\ UNCHANGED <<samplingVars, tracingVars, privacyVars, aloneVars>>

KeyText == <<"k">>

\* { url, apiKey, appKey } alone and with the options set; configurations
\* that validateConfig rejects
InitConfigs ==
  {NadiConfig(Some(KeyText), Some(KeyText), Some(KeyText), autoSession, autoErrors,
              autoBreadcrumbs, maxBreadcrumbs) :
     autoSession \in {None, Some(FALSE)}, autoErrors \in {None, Some(FALSE)},
     autoBreadcrumbs \in {None, Some(FALSE)}, maxBreadcrumbs \in {0, 2}}
  \cup {NadiConfig(None, Some(KeyText), Some(KeyText), None, None, None, 0),
        NadiConfig(Some(KeyText), Some(<<" ">>), Some(KeyText), None, None, None, 0),
        NadiConfig(Some(KeyText), Some(KeyText), Some(UndefinedText), None, None, None, 0)}

InitInit ==
  /\ Construct(Config(300, <<>>, TRUE, TRUE, FALSE))
  /\ TracingConstruct(TracingConfig(FALSE, None, None), TRUE,
                      [i \in 1..TraceIdBytes |-> 171], [i \in 1..SpanIdBytes |-> 171])
  /\ PrivacyIdle
  /\ instance = None
  /\ created = 0
  /\ initialized = FALSE
  /\ starting = None
  /\ AloneIdle
  /\ errorsEnabled = FALSE
  /\ BreadcrumbConstruct(50)

NextInit ==
  \/ \E cfg \in InitConfigs : StaticInit(cfg)
  \/ GetInstance
  \/ StartResumes
  \/ StartRejected
  \/ instance # None /\ Stop
  \/ instance # None /\ Len(added) < MaxAdds /\ BreadcrumbAdd("custom", "first")

SpecInit == InitInit /\ [][NextInit]_vars

\* C31: an init call that finds an instance returns it and changes neither
\* the instance, the number of objects built, the collectors nor what they
\* hold; an init call that finds none and whose configuration is valid
\* builds one object, makes it the instance, returns it and starts it (the
\* breadcrumb collector per autoBreadcrumbs, the error tracker per autoErrors
\* at once or once session.start() has settled); an init call that throws
\* leaves no instance; getInstance returns the instance; no second object
\* is ever built.
C31_Singleton ==
  /\ created <= 1
  /\ [][/\ (lastOp' = "init" /\ instance # None) =>
             /\ ~ret'[1].threw
             /\ ret'[1].value = instance[1]
             /\ UNCHANGED <<instance, created, initialized, starting,
                            errorsEnabled, breadcrumbs, added>>
        /\ (lastOp' = "init" /\ instance = None /\ ~ret'[1].threw) =>
             /\ instance' = Some(ret'[1].value)
             /\ created' = created + 1
             /\ initialized'
             /\ breadcrumbs'.enabled = OrTrue(lastArg'[1].autoBreadcrumbs)
             /\ \/ starting' # None /\ ~errorsEnabled'
                \/ starting' = None /\ errorsEnabled' = OrTrue(lastArg'[1].autoErrors)
        /\ (lastOp' = "init" /\ instance = None /\ ret'[1].threw) => instance' = None
        /\ (lastOp' = "init" /\ instance = None) => (ret'[1].threw <=> ~validConfig(lastArg'[1]))
        /\ lastOp' = "getInstance" => ret' = Some(instance) /\ instance' = instance
       ]_vars

\* a later init with another configuration, after stop(): the instance of
\* the first call comes back, stopped, with the first call's configuration
C31_Witness ==
  /\ lastOp = "init"
  /\ ~ret[1].threw
  /\ ret[1].value = 1
  /\ instance = Some(1)
  /\ created = 1
  /\ ~initialized
  /\ ~breadcrumbs.enabled
  /\ breadcrumbs.maxBreadcrumbs = 2
  /\ lastArg[1].maxBreadcrumbs = 0
  /\ lastArg[1].autoBreadcrumbs = None


(***************************************************************************)
(* SpecPageLoad: a PageLoadCollector on a page that is still loading or has *)
(* loaded, with or without a navigation entry.  send() is called before the *)
(* first await of sendPageLoad, so handing the payload over is part of the  *)
(* step that calls collectAndSend.                                          *)
(***************************************************************************)
MaxStarts == 2

PageLoadCall(op, arg, r) ==
  /\ Returned(op, arg, r, 0)
  /\ UNCHANGED <<samplingVars, tracingVars, nadiVars, privacyVars, instanceVars>>
  /\ UNCHANGED clickVars
  /\ UNCHANGED bufferVars
  /\ UNCHANGED sessionVars
  /\ UNCHANGED hasNavigation

\* faulty variant: sent is not set before the payload is collected
collectAndSend_Unmarked(collector, navigation) ==
  IF collector.sent \/ ~collector.enabled THEN [collector |-> collector, sends |-> 0]
  ELSE [collector |-> collector, sends |-> IF navigation THEN 1 ELSE 0]

\* collectAndSend(): the collector afterwards and the payloads handed to send()
collectAndSend(collector, navigation) ==
  IF collector.sent \/ ~collector.enabled THEN [collector |-> collector, sends |-> 0]
  ELSE [collector |-> [collector EXCEPT !.sent = TRUE],
        sends |-> IF navigation THEN 1 ELSE 0]

\* start()
PageLoadStart ==
  /\ IF pageLoad.enabled
       THEN UNCHANGED <<pageLoad, loadListeners, pageLoadsSent>>
       ELSE IF readyState = "complete"
         THEN LET done == collectAndSend([pageLoad EXCEPT !.enabled = TRUE], hasNavigation) IN
                /\ pageLoad' = done.collector
                /\ pageLoadsSent' = pageLoadsSent + done.sends
                /\ UNCHANGED loadListeners
         ELSE /\ pageLoad' = [pageLoad EXCEPT !.enabled = TRUE]
              /\ loadListeners' = loadListeners + 1
              /\ UNCHANGED pageLoadsSent
  /\ PageLoadCall("start", None, None)
  /\ UNCHANGED <<readyState, loadTimers>>

\* stop()
PageLoadStop ==
  /\ pageLoad' = [pageLoad EXCEPT !.enabled = FALSE]
  /\ PageLoadCall("stop", None, None)
  /\ UNCHANGED <<readyState, loadListeners, loadTimers, pageLoadsSent>>

\* flush()
PageLoadFlush ==
  /\ LET done == IF ~pageLoad.sent THEN collectAndSend(pageLoad, hasNavigation)
                 ELSE [collector |-> pageLoad, sends |-> 0] IN
       /\ pageLoad' = done.collector
       /\ pageLoadsSent' = pageLoadsSent + done.sends
  /\ PageLoadCall("flush", None, None)
  /\ UNCHANGED <<readyState, loadListeners, loadTimers>>

\* the window's load event: every listener added by start() sets its timer
LoadEvent ==
  /\ readyState = "loading"
  /\ readyState' = "complete"
  /\ loadTimers' = loadTimers + loadListeners
  /\ PageLoadCall("load", None, None)
  /\ UNCHANGED <<pageLoad, loadListeners, pageLoadsSent>>

\* one of the timers set by the load listeners fires
LoadTimerFires ==
  /\ loadTimers > 0
  /\ loadTimers' = loadTimers - 1
  /\ LET done == collectAndSend(pageLoad, hasNavigation) IN
       /\ pageLoad' = done.collector
       /\ pageLoadsSent' = pageLoadsSent + done.sends
  /\ PageLoadCall("loadTimer", None, None)
  /\ UNCHANGED <<readyState, loadListeners>>

InitPageLoad ==
  /\ Construct(Config(300, <<>>, TRUE, TRUE, FALSE))
  /\ TracingConstruct(TracingConfig(FALSE, None, None), TRUE,
                      [i \in 1..TraceIdBytes |-> 171], [i \in 1..SpanIdBytes |-> 171])
  /\ NadiInit(FALSE, FALSE, 50)
  /\ PrivacyIdle
  /\ instance = <<1>>
  /\ created = 1
  /\ initialized = TRUE
  /\ starting = <<>>
  /\ pageLoad = [sent |-> FALSE, enabled |-> FALSE]
  /\ readyState \in {"loading", "complete"}
  /\ loadListeners = 0
  /\ loadTimers = 0
  /\ hasNavigation \in BOOLEAN
  /\ pageLoadsSent = 0
  /\ ClickIdle
  /\ LongTasksIdle
  /\ SessionIdle

NextPageLoad ==
  \/ loadListeners < MaxStarts /\ PageLoadStart
  \/ PageLoadStop
  \/ PageLoadFlush
  \/ LoadEvent
  \/ LoadTimerFires

SpecPageLoad == InitPageLoad /\ [][NextPageLoad]_vars

\* C39: never more than one page-load payload is handed to send(), whatever
\* the order of start, stop, flush, the load event and its timers; a flush
\* (or a timer) that finds the collector stopped hands over none; and a
\* payload is handed over only by a step that finds sent unset and sets it.
C39_PageLoadOnce ==
  /\ pageLoadsSent <= 1
  /\ [][/\ (lastOp' \in {"flush", "loadTimer"} /\ ~pageLoad.enabled) =>
             pageLoadsSent' = pageLoadsSent
        /\ pageLoadsSent' # pageLoadsSent =>
             ~pageLoad.sent /\ pageLoad'.sent /\ pageLoadsSent' = pageLoadsSent + 1
       ]_vars

\* started twice before the load event (stop in between): two timers ran,
\* one payload went out, and a flush came after
C39_Witness ==
  /\ lastOp = "flush"
  /\ loadListeners = 2
  /\ loadTimers = 0
  /\ readyState = "complete"
  /\ pageLoad.enabled
  /\ pageLoadsSent = 1


(***************************************************************************)
(* SpecClicks: the ClickTracker of a started InteractionsCollector.  The    *)
(* clock never runs backwards; several clicks may carry the same time.      *)
(***************************************************************************)
MaxClock == 4
MaxClicks == 5

Click(element, timestamp) == [element |-> element, timestamp |-> timestamp]

\* this.clicks.filter((c) => now - c.timestamp < this.windowMs)
InWindow(recorded, time, windowMs) ==
  LET Fresh(c) == time - c.timestamp < windowMs IN SelectSeq(recorded, Fresh)

\* this.clicks.filter((c) => c.element === target)
OnElement(recorded, target) ==
  LET Same(c) == c.element = target IN SelectSeq(recorded, Same)

\* this.clicks.filter((c) => c.element !== target)
OffElement(recorded, target) ==
  LET Other(c) == c.element # target IN SelectSeq(recorded, Other)

\* the entry handed to onRageClick
RageClickEntry(target, clickCount, windowMs) ==
  [selector |-> target, clickCount |-> clickCount, windowMs |-> windowMs]

\* faulty variant: the clicks of a reported element are kept
handleClick_KeepsClicks(recorded, target, time, cfg) ==
  LET kept == InWindow(Append(recorded, Click(target, time)), time, cfg.windowMs)
      same == OnElement(kept, target)
  IN IF Len(same) >= cfg.threshold
       THEN [clicks |-> kept,
             report |-> Some(RageClickEntry(target, Len(same), cfg.windowMs))]
       ELSE [clicks |-> kept, report |-> None]

\* ClickTracker.handleClick(event): the clicks kept and the report made
handleClick(recorded, target, time, cfg) ==
  LET kept == InWindow(Append(recorded, Click(target, time)), time, cfg.windowMs)
      same == OnElement(kept, target)
  IN IF Len(same) >= cfg.threshold
       THEN [clicks |-> OffElement(kept, target),
             report |-> Some(RageClickEntry(target, Len(same), cfg.windowMs))]
       ELSE [clicks |-> kept, report |-> None]

ClickFrame(op, arg, r) ==
  /\ Returned(op, arg, r, 0)
  /\ UNCHANGED <<samplingVars, tracingVars, nadiVars, privacyVars, instanceVars>>
  /\ UNCHANGED pageLoadVars
  /\ UNCHANGED bufferVars
  /\ UNCHANGED sessionVars
  /\ UNCHANGED clickConfig

\* a click event on the document reaches the tracker's handler
HandleClick(target) ==
  /\ LET done == handleClick(clicks, target, clock, clickConfig) IN
       /\ clicks' = done.clicks
       /\ rageClicks' = IF done.report = None THEN rageClicks
                        ELSE Append(rageClicks, done.report[1])
       /\ clickLog' = Append(clickLog, [element |-> target, timestamp |-> clock,
                                        reported |-> done.report # None])
  /\ ClickFrame("click", Some(target), None)
  /\ UNCHANGED clock

\* time passes
Tick ==
  /\ clock < MaxClock
  /\ clock' = clock + 1
  /\ ClickFrame("tick", None, None)
  /\ UNCHANGED <<clicks, rageClicks, clickLog>>

InitClicks ==
  /\ Construct(Config(300, <<>>, TRUE, TRUE, FALSE))
  /\ TracingConstruct(TracingConfig(FALSE, None, None), TRUE,
                      [i \in 1..TraceIdBytes |-> 171], [i \in 1..SpanIdBytes |-> 171])
  /\ NadiInit(FALSE, FALSE, 50)
  /\ PrivacyIdle
  /\ instance = <<1>>
  /\ created = 1
  /\ initialized = TRUE
  /\ starting = <<>>
  /\ PageLoadIdle
  /\ clock = 0
  /\ \E threshold \in {2, 3} : clickConfig = [threshold |-> threshold, windowMs |-> 2]
  /\ clicks = <<>>
  /\ rageClicks = <<>>
  /\ clickLog = <<>>
  /\ LongTasksIdle
  /\ SessionIdle

NextClicks ==
  \/ Len(clickLog) < MaxClicks /\ \E target \in {"button", "link"} : HandleClick(target)
  \/ Tick

SpecClicks == InitClicks /\ [][NextClicks]_vars

\* the place in the log of the last reported click on the element, 0 if none
LastReport(log, target) ==
  LET at == {i \in 1..Len(log) : log[i].element = target /\ log[i].reported}
  IN IF at = {} THEN 0 ELSE CHOOSE i \in at : \A j \in at : j <= i

\* the clicks on the element that count at the given time: after its last
\* report and less than windowMs old
Counting(log, target, time, windowMs) ==
  {i \in 1..Len(log) : /\ log[i].element = target
                       /\ i > LastReport(log, target)
                       /\ log[i].timestamp > time - windowMs}

\* C33: a click is reported exactly when, with it, the clicks on its element
\* that are less than windowMs old and came after the element's last report
\* number at least threshold; the entry names the element and that number;
\* after a report no click on the element is kept.
C33_RageClicks ==
  [][lastOp' = "click" =>
       LET target == lastArg'[1]
           counted == Cardinality(Counting(clickLog, target, clock, clickConfig.windowMs)) + 1
           reported == Len(rageClicks') = Len(rageClicks) + 1
       IN /\ reported <=> counted >= clickConfig.threshold
          /\ ~reported => rageClicks' = rageClicks
          /\ reported =>
               /\ rageClicks'[Len(rageClicks')].selector = target
               /\ rageClicks'[Len(rageClicks')].clickCount = counted
               /\ \A i \in 1..Len(clicks') : clicks'[i].element # target
    ]_vars

\* button, link, button at time 0, a fourth click on the button two units
\* later (the first clicks are too old), and a fifth: reported with two clicks
C33_Witness ==
  /\ lastOp = "click"
  /\ clickConfig.threshold = 2
  /\ Len(clickLog) = 5
  /\ clickLog[1].element = "button" /\ ~clickLog[1].reported
  /\ clickLog[2].element = "link"
  /\ clickLog[3].element = "button" /\ clickLog[3].reported
  /\ clickLog[4].element = "button" /\ ~clickLog[4].reported
  /\ clickLog[5].element = "button" /\ clickLog[5].reported
  /\ clickLog[5].timestamp = 3
  /\ Len(rageClicks) = 2


(***************************************************************************)
(* SpecLongTasks: a started LongTaskCollector.  sendTasks builds its        *)
(* payload and calls send() before its await; what follows the await        *)
(* (this.tasks = []) runs when the send has settled: after the network      *)
(* round trip for fetch, in the microtask right after the handler for       *)
(* sendBeacon.  ResourceCollector (resources, sendResources),               *)
(* MemoryCollector (samples, sendSamples) and InteractionsCollector          *)
(* (rageClicks, sendRageClicks) buffer and send the same way.               *)
(***************************************************************************)
MaxEntries == 3
MaxPending == 2

ThresholdMs == 50

LongTaskFrame(op, arg) ==
  /\ Returned(op, arg, None, 0)
  /\ UNCHANGED <<samplingVars, tracingVars, nadiVars, privacyVars, instanceVars>>
  /\ UNCHANGED pageLoadVars
  /\ UNCHANGED clickVars
  /\ UNCHANGED sessionVars
  /\ UNCHANGED hasBeacon

\* handleEntry(entry)
HandleEntry(entryDuration) ==
  /\ IF ~longTasks.enabled \/ entryDuration < ThresholdMs
       THEN UNCHANGED <<longTasks, taskCount>>
       ELSE /\ longTasks' = [longTasks EXCEPT !.tasks = Append(@, taskCount + 1)]
            /\ taskCount' = taskCount + 1
  /\ LongTaskFrame("handleEntry", Some(entryDuration))
  /\ UNCHANGED <<pendingSends, transmitted>>

\* sendTasks(useBeacon) up to the point where its await settles
sendTasks(useBeacon) ==
  IF longTasks.tasks = <<>> THEN UNCHANGED <<longTasks, pendingSends, transmitted>>
  ELSE /\ transmitted' = Append(transmitted, longTasks.tasks)
       /\ IF useBeacon /\ hasBeacon
            THEN longTasks' = [longTasks EXCEPT !.tasks = <<>>] /\ UNCHANGED pendingSends
            ELSE pendingSends' = pendingSends + 1 /\ UNCHANGED longTasks

\* flush()
LongTaskFlush ==
  /\ sendTasks(FALSE)
  /\ LongTaskFrame("flush", None)
  /\ UNCHANGED taskCount

\* the visibilitychange listener with the page hidden, or the pagehide listener
PageHidden ==
  /\ sendTasks(TRUE)
  /\ LongTaskFrame("pagehide", None)
  /\ UNCHANGED taskCount

\* a send settles: sendTasks (and flush after it) empties the buffer
SendSettles ==
  /\ pendingSends > 0
  /\ pendingSends' = pendingSends - 1
  /\ longTasks' = [longTasks EXCEPT !.tasks = <<>>]
  /\ LongTaskFrame("sendSettles", None)
  /\ UNCHANGED <<taskCount, transmitted>>

\* stop()
LongTaskStop ==
  /\ longTasks' = [longTasks EXCEPT !.enabled = FALSE]
  /\ LongTaskFrame("stop", None)
  /\ UNCHANGED <<pendingSends, taskCount, transmitted>>

InitLongTasks ==
  /\ Construct(Config(300, <<>>, TRUE, TRUE, FALSE))
  /\ TracingConstruct(TracingConfig(FALSE, None, None), TRUE,
                      [i \in 1..TraceIdBytes |-> 171], [i \in 1..SpanIdBytes |-> 171])
  /\ NadiInit(FALSE, FALSE, 50)
  /\ PrivacyIdle
  /\ instance = <<1>>
  /\ created = 1
  /\ initialized = TRUE
  /\ starting = <<>>
  /\ PageLoadIdle
  /\ ClickIdle
  /\ longTasks = [enabled |-> TRUE, tasks |-> <<>>]
  /\ pendingSends = 0
  /\ hasBeacon \in BOOLEAN
  /\ taskCount = 0
  /\ transmitted = <<>>
  /\ SessionIdle

NextLongTasks ==
  \/ taskCount < MaxEntries /\ \E entryDuration \in {10, 60} : HandleEntry(entryDuration)
  \/ pendingSends < MaxPending /\ LongTaskFlush
  \/ pendingSends < MaxPending /\ PageHidden
  \/ SendSettles
  \/ LongTaskStop

SpecLongTasks == InitLongTasks /\ [][NextLongTasks]_vars

\* the payloads handed to send() that hold the entry
PayloadsWith(entry) == {k \in 1..Len(transmitted) : Includes(transmitted[k], entry)}

\* C37: every entry pushed to the buffer is in the buffer or in a payload
\* handed to send(), and in no more than one payload.
C37_ExactlyOnce ==
  \A entry \in 1..taskCount :
    /\ Cardinality(PayloadsWith(entry)) <= 1
    /\ PayloadsWith(entry) = {} => Includes(longTasks.tasks, entry)


(***************************************************************************)
(* SpecSession: a SessionManager with valid keys in a window.  A session is *)
(* its number; a timer is its id and the time it is due.  sendSessionEnd    *)
(* and sendSessionCrash ask for the beacon: with navigator.sendBeacon the   *)
(* await settles in the microtasks after the call, without it (and for      *)
(* sendSessionStart always) after the fetch, and other handlers run in      *)
(* between.  A timer may fire late, never early.                            *)
(***************************************************************************)
MaxSessions == 2
MaxAwaiting == 1
MaxTimers == 2
MaxMessages == 3
MaxSessionClock == 3

\* config.timeout, in units of the clock
SessionTimeout == 2

Message(kind, id) == [kind |-> kind, session |-> id]

Without(seq, k) == SubSeq(seq, 1, k - 1) \o SubSeq(seq, k + 1, Len(seq))

\* clearTimeout(): the timers left pending
Cleared(pending) ==
  IF timeoutId = None THEN pending ELSE {timer \in pending : timer.id # timeoutId[1]}

SessionFrame(op, arg, r) ==
  /\ Returned(op, arg, r, 0)
  /\ UNCHANGED <<samplingVars, tracingVars, nadiVars, privacyVars, instanceVars>>
  /\ UNCHANGED pageLoadVars
  /\ UNCHANGED <<clickConfig, clicks, rageClicks, clickLog>>
  /\ UNCHANGED <<longTasks, pendingSends, taskCount, transmitted>>
  /\ UNCHANGED hasBeacon

\* faulty variant: the timer pending is not cleared before the new one is set
resetTimeout_NoClear ==
  /\ timers' = timers \cup {[id |-> timerCount + 1, due |-> clock + SessionTimeout]}
  /\ timeoutId' = Some(timerCount + 1)
  /\ timerCount' = timerCount + 1

\* resetTimeout()
resetTimeout ==
  /\ timers' = Cleared(timers) \cup {[id |-> timerCount + 1, due |-> clock + SessionTimeout]}
  /\ timeoutId' = Some(timerCount + 1)
  /\ timerCount' = timerCount + 1

\* end() / crash() with the timers in pending: kind is the message sent
Terminate(kind, pending) ==
  IF session = None
    THEN /\ timers' = pending
         /\ UNCHANGED <<session, timeoutId, awaiting, messages>>
    ELSE /\ timers' = Cleared(pending)
         /\ timeoutId' = None
         /\ messages' = Append(messages, Message(kind, session[1]))
         /\ IF hasBeacon
              THEN session' = None /\ UNCHANGED awaiting
              ELSE awaiting' = Append(awaiting, "end") /\ UNCHANGED session

\* start(): an existing session is ended first
SessionStart ==
  /\ IF session # None /\ ~hasBeacon
       THEN /\ timers' = Cleared(timers)
            /\ timeoutId' = None
            /\ messages' = Append(messages, Message("end", session[1]))
            /\ awaiting' = Append(awaiting, "startAfterEnd")
            /\ UNCHANGED <<session, sessionCount>>
       ELSE /\ session' = Some(sessionCount + 1)
            /\ sessionCount' = sessionCount + 1
            /\ awaiting' = Append(awaiting, "startAfterSend")
            /\ IF session # None
                 THEN /\ timers' = Cleared(timers)
                      /\ timeoutId' = None
                      /\ messages' = messages \o <<Message("end", session[1]),
                                                   Message("start", sessionCount + 1)>>
                 ELSE /\ messages' = Append(messages, Message("start", sessionCount + 1))
                      /\ UNCHANGED <<timers, timeoutId>>
  /\ SessionFrame("start", None, None)
  /\ UNCHANGED <<listenerSets, timerCount, clock>>

\* end()
SessionEnd ==
  /\ Terminate("end", timers)
  /\ SessionFrame("end", None, None)
  /\ UNCHANGED <<listenerSets, sessionCount, timerCount, clock>>

\* crash()
SessionCrash ==
  /\ Terminate("crash", timers)
  /\ SessionFrame("crash", None, None)
  /\ UNCHANGED <<listenerSets, sessionCount, timerCount, clock>>

\* the callback of a timer set by resetTimeout runs: this.end()
TimeoutFires ==
  /\ \E timer \in timers :
       /\ timer.due <= clock
       /\ Terminate("end", timers \ {timer})
  /\ SessionFrame("timeout", None, None)
  /\ UNCHANGED <<listenerSets, sessionCount, timerCount, clock>>

\* mousedown, keydown, scroll or touchstart: recordActivity()
ActivityEvent ==
  /\ listenerSets > 0
  /\ IF session = None THEN UNCHANGED <<timers, timeoutId, timerCount>>
     ELSE resetTimeout
  /\ SessionFrame("activity", None, None)
  /\ UNCHANGED <<session, awaiting, listenerSets, sessionCount, messages, clock>>

\* visibilitychange with the page hidden, or pagehide: every listener added
\* calls sendSessionEnd()
PageHides ==
  /\ listenerSets > 0
  /\ messages' = IF session = None THEN messages
                 ELSE messages \o [k \in 1..listenerSets |-> Message("end", session[1])]
  /\ SessionFrame("pagehide", None, None)
  /\ UNCHANGED <<session, timeoutId, timers, awaiting, listenerSets, sessionCount,
                 timerCount, clock>>

\* the await of the k-th waiting call settles and the call goes on
Resume(k) ==
  /\ k \in 1..Len(awaiting)
  /\ CASE awaiting[k] = "end" ->
            /\ session' = None
            /\ awaiting' = Without(awaiting, k)
            /\ UNCHANGED <<timeoutId, timers, listenerSets, sessionCount, timerCount, messages>>
       [] awaiting[k] = "startAfterEnd" ->
            /\ session' = Some(sessionCount + 1)
            /\ sessionCount' = sessionCount + 1
            /\ messages' = Append(messages, Message("start", sessionCount + 1))
            /\ awaiting' = Append(Without(awaiting, k), "startAfterSend")
            /\ UNCHANGED <<timeoutId, timers, listenerSets, timerCount>>
       [] awaiting[k] = "startAfterSend" ->
            /\ listenerSets' = listenerSets + 1
            /\ resetTimeout
            /\ awaiting' = Without(awaiting, k)
            /\ UNCHANGED <<session, sessionCount, messages>>
  /\ SessionFrame("resume", Some(awaiting[k]), None)
  /\ UNCHANGED clock

\* getSession()
GetSession ==
  /\ SessionFrame("getSession", None, Some(session))
  /\ UNCHANGED <<sessionVars, clock>>

\* time passes
SessionTick ==
  /\ clock < MaxSessionClock
  /\ clock' = clock + 1
  /\ SessionFrame("tick", None, None)
  /\ UNCHANGED sessionVars

InitSession ==
  /\ Construct(Config(300, <<>>, TRUE, TRUE, FALSE))
  /\ TracingConstruct(TracingConfig(FALSE, None, None), TRUE,
                      [i \in 1..TraceIdBytes |-> 171], [i \in 1..SpanIdBytes |-> 171])
  /\ NadiInit(FALSE, FALSE, 50)
  /\ PrivacyIdle
  /\ instance = <<1>>
  /\ created = 1
  /\ initialized = TRUE
  /\ starting = <<>>
  /\ PageLoadIdle
  /\ ClickIdle
  /\ longTasks = [enabled |-> FALSE, tasks |-> <<>>]
  /\ pendingSends = 0
  /\ hasBeacon \in BOOLEAN
  /\ taskCount = 0
  /\ transmitted = <<>>
  /\ SessionIdle

NextSession ==
  \/ sessionCount < MaxSessions /\ Len(awaiting) < MaxAwaiting /\ SessionStart
  \/ Len(awaiting) < MaxAwaiting /\ Len(messages) < MaxMessages /\ SessionEnd
  \/ Len(awaiting) < MaxAwaiting /\ Len(messages) < MaxMessages /\ SessionCrash
  \/ TimeoutFires
  \/ timerCount < MaxTimers /\ ActivityEvent
  \/ Len(messages) < MaxMessages /\ PageHides
  \/ \E k \in 1..Len(awaiting) : Resume(k)
  \/ GetSession
  \/ SessionTick

SpecSession == InitSession /\ [][NextSession]_vars

\* timers fire and sends settle
SpecSessionLive ==
  /\ InitSession
  /\ [][NextSession]_vars
  /\ WF_vars(TimeoutFires)
  /\ WF_vars(\E k \in 1..Len(awaiting) : Resume(k))

\* the end and crash messages sent for the session
Terminal(id) ==
  {k \in 1..Len(messages) : messages[k].session = id /\ messages[k].kind \in {"end", "crash"}}

\* C38: no session has more than one end or crash message, and a session
\* that has one is not the current session.
C38_OneTerminalMessage ==
  \A id \in 1..sessionCount :
    /\ Cardinality(Terminal(id)) <= 1
    /\ Terminal(id) # {} => session # Some(id)

\* C32: at most one timer is pending; an activity event in a session leaves
\* exactly one timer, due a full timeout after the event; a timer never
\* fires before it is due, and one that fires in a session sends the end
\* message for it and leaves the session null, at once or when the send has
\* settled; and a session whose timer is due is ended unless the timer is
\* set anew, by an activity event or by the listener set-up of a start()
\* call that was waiting for its send.
C32_InactivityTimeout ==
  /\ [](Cardinality(timers) <= 1)
  /\ [][/\ (lastOp' = "activity" /\ session # None) =>
             /\ timers' = {[id |-> timerCount', due |-> clock + SessionTimeout]}
             /\ timeoutId' = Some(timerCount')
        /\ lastOp' = "timeout" =>
             /\ \E timer \in timers : timer.due <= clock /\ timer.due >= SessionTimeout
             /\ timers' = {}
             /\ session # None =>
                  /\ messages' = Append(messages, [kind |-> "end", session |-> session[1]])
                  /\ session' = None \/ Includes(awaiting', "end")
       ]_vars
  /\ \A id \in 1..MaxSessions :
       (session = Some(id) /\ \E timer \in timers : timer.due <= clock)
         ~> \/ session # Some(id)
            \/ lastOp = "activity"
            \/ lastOp = "resume" /\ lastArg = Some("startAfterSend")

\* the timer of the session, set anew by an activity event at time 1, has
\* fired at time 3 and the session is over
C32_Witness ==
  /\ lastOp = "timeout"
  /\ session = None
  /\ sessionCount = 1
  /\ timers = {}
  /\ timerCount = 2
  /\ clock = 3
  /\ messages = <<Message("start", 1), Message("end", 1)>>

====
